---- MODULE Spec2Model ----
(***************************************************************************)
(* Tool orchestration service (api_server.py, sync_service.py,            *)
(* fetch_all_tools.py): the attach/prune engine acting on one agent of the *)
(* Agent Platform, the file-backed tool catalog cache with its in-memory   *)
(* mirror, and the sync cycle that fills the cache and the Vector Store.   *)
(***************************************************************************)
EXTENDS Integers, Sequences, FiniteSets, TLC

(***************************************************************************)
(* Universe of the model                                                   *)
(***************************************************************************)

\* Platform tools of type external_mcp, and one core (non-MCP) tool.
McpIds == {"m1", "m2", "m3"}

CoreIds == {"c1"}

ToolIds == McpIds \cup CoreIds

\* The MCP tools of the agents with ten and with five MCP tools attached.
TenIds == {"t1", "t2", "t3", "t4", "t5", "t6", "t7", "t8", "t9", "t10"}

FiveIds == {"t1", "t2", "t3", "t4", "t5"}

\* tool_type the Agent Platform reports for a tool attached to the agent.
ToolType(id) == IF id \in McpIds \cup TenIds THEN "external_mcp" ELSE "custom"

\* A tool dict the platform lists without any id (skipped by the engine).
NoId == "none"

\* Order in which the platform lists the tools of an agent.
PlatformOrder == <<"c1", "m1", "m2", "m3",
                   "t1", "t2", "t3", "t4", "t5", "t6", "t7", "t8", "t9", "t10">>

\* Iteration orders of a Python set of ids (fixed per process by the hash seed).
HashOrders == {<<"c1", "m1", "m2", "m3">>, <<"m3", "m2", "m1", "c1">>}

\* A store object or cache entry without mcp_server_name.
NoServer == "none"

\* Objects of the Vector Store collection "Tool": one per platform tool
\* (a tool's name and id are the same token here), and one stale object
\* that still records m2 with a non-MCP tool_type and no server.
StoreObjects ==
    {[id |-> i, tool_type |-> ToolType(i),
      mcp_server_name |-> IF i \in McpIds THEN "s1" ELSE NoServer] : i \in ToolIds}
        \cup {[id |-> "m2", tool_type |-> "custom", mcp_server_name |-> NoServer]}

\* Tool catalog cache: the names whose entry carries an id. m2 and m3 are
\* offered by an MCP server but the cache holds no id for them yet.
Catalog == {"c1", "m1"}

\* query values an attach request may carry.
Queries == {"", "q"}

\* limit values an attach request may carry.
Limits == {1, 10}

\* keep_tools values an attach request may carry.
KeepTools == {{}, {"m1"}, {"m1", "m2"}, {"m1", "c1"}}

\* DEFAULT_DROP_RATE, in tenths (0.1).
DEFAULT_DROP_RATE == 1

\* Longest ranked result list the Vector Store returns for the query.
MaxLib == 2

\* drop_rate values, in tenths (0.0, 0.1, 0.5, 1.0).
DropRates == {0, 1, 5, 10}

\* keep_tool_ids / newly_matched_tool_ids a prune request may carry.
KeepChoices == {{}, {"m1"}, {"m1", "m2"}, {"m1", "c1"}}

NewlyChoices == {{}, {"m3"}, {"m2", "m3"}}

\* Answers of the platform to one detach/attach request.
Responses == {"ok", "error", "timeout"}

\* The answers an environment can give.
Answers(rel) == IF rel THEN {"ok"} ELSE Responses

\* Whether a Vector Store query can succeed or fail.
StoreUp(rel) == IF rel THEN {TRUE} ELSE BOOLEAN

(***************************************************************************)
(* Sequence helpers                                                        *)
(***************************************************************************)

Range(s) == {s[i] : i \in 1..Len(s)}

SeqsUpTo(S, n) == UNION {[1..k -> S] : k \in 0..n}

Take(s, n) == SubSeq(s, 1, IF n < Len(s) THEN n ELSE Len(s))

Max(a, b) == IF a >= b THEN a ELSE b

RECURSIVE FilterSeq(_, _)
FilterSeq(s, S) ==
    IF s = <<>> THEN <<>>
    ELSE IF Head(s) \in S THEN <<Head(s)>> \o FilterSeq(Tail(s), S)
    ELSE FilterSeq(Tail(s), S)

Rankings == SeqsUpTo(StoreObjects, MaxLib)

(***************************************************************************)
(* State                                                                   *)
(***************************************************************************)
VARIABLES
    attached,       \* platform: ids of the tools attached to the agent
    ranking,        \* Vector Store: objects ranked for the query, best first
    hashOrder,      \* process: iteration order of Python sets of ids
    pc,             \* position of the engine call in progress
    pruneArgs,      \* arguments of _perform_tool_pruning
    current_mcp_tool_ids,
    current_core_tool_ids,
    num_mcp_tools_to_keep,
    ordered_top_library_tool_info,
    final_mcp_tool_ids_to_keep,
    mcp_tools_to_detach_ids,
    batchKind,      \* "none" | "detach" | "attach": the gather in progress
    batchIds,       \* tool id of each task of the gather, in task order
    batchResp,      \* result of each task, Inflight until it returns
    pruning_result, \* value returned by _perform_tool_pruning
    reliable,       \* environment: no remote call fails in this behaviour
    attachArgs,     \* body of the attach request
    mcp_tools,      \* attach: the agent's MCP tools, deduplicated
    matching_tools_from_search,
    processed_tools,\* attach: the resolved candidates R
    results,        \* attach: value returned by process_tools
    attach_response,\* attach: the HTTP response
    callNo,         \* attach calls made so far with attachArgs
    firstAttached,  \* tools attached when the first of them returned
    cache_file,     \* TOOL_CACHE_FILE_PATH: [exists, content, mtime]
    _tool_cache,    \* api_server._tool_cache: None or the parsed list
    _tool_cache_last_modified,
    reader,         \* each read_tool_cache call in progress or returned
    writer,         \* the write_tool_cache call in progress or completed
    S_old,          \* what the file held when the behaviour began
    reads,          \* read_tool_cache calls made so far
    writes,         \* write_tool_cache calls made so far
    platform_tools, \* platform: names of the registered tools (GET /tools)
    platform_tags,  \* platform: its MCP tool records carry mcp_server_name
    mcp_servers,    \* platform: the active MCP servers
    weaviate,       \* Vector Store: names of the objects of the Tool collection
    enabled_triggers, \* environment: the triggers in use in this behaviour
    syncer,         \* each trigger's sync_tools cycle: position and locals
    weaviate_client,\* api_server.weaviate_client: the shared Vector Store handle
    mcp_servers_cache_file, \* MCP_SERVERS_CACHE_FILE_PATH: state of the file
    request_body,   \* JSON body of the last request received
    http_response,  \* last response built by a handler itself
    init_attempts,  \* init_weaviate_client calls made for the last request
    _tool_cache_keys, \* id keys of each descriptor held in _tool_cache
    cache_file_keys,\* id keys of each descriptor in the cache file
    server_tools,   \* platform: the tools one listing URL serves, in its order
    pager,          \* the fetch_tools_from_server_async call: locals and position
    registry,       \* platform: id under which each name is registered
    collection,     \* Vector Store: the objects of the Tool collection, by name
    mcp_servers_cache, \* MCP_SERVERS_CACHE_FILE_PATH: [exists, servers, mtime]
    cycle,          \* the detailed sync_tools cycle: position and locals
    registration    \* one registration of an MCP tool and the attach after it

envVars == <<attached, ranking, hashOrder, reliable>>

attachVars == <<attachArgs, mcp_tools, matching_tools_from_search,
                processed_tools, results, attach_response, callNo, firstAttached>>

pruneLocals == <<current_mcp_tool_ids, current_core_tool_ids,
                 num_mcp_tools_to_keep, ordered_top_library_tool_info,
                 final_mcp_tool_ids_to_keep, mcp_tools_to_detach_ids>>

batchVars == <<batchKind, batchIds, batchResp>>

cacheVars == <<cache_file, _tool_cache, _tool_cache_last_modified,
               reader, writer, S_old, reads, writes>>

engineVars == <<envVars, pc, pruneArgs, pruneLocals, batchVars, pruning_result, attachVars>>

syncVars == <<platform_tools, platform_tags, mcp_servers, weaviate,
              enabled_triggers, syncer>>

facadeVars == <<weaviate_client, mcp_servers_cache_file, request_body,
                http_response, init_attempts, _tool_cache_keys, cache_file_keys>>

fetchVars == <<server_tools, pager, registry, collection, mcp_servers_cache, cycle,
               registration>>

vars == <<engineVars, cacheVars, syncVars, facadeVars, fetchVars>>

(***************************************************************************)
(* Tool cache: api_server.read_tool_cache, sync_service.write_tool_cache   *)
(***************************************************************************)

MaxReads == 2

MaxWrites == 1

\* Two requests in flight on the event loop, each calling read_tool_cache.
Readers == {"r1", "r2"}

\* The catalog entries a cache file may list.
ToolNames == {"t1", "t2"}

ToolLists == {<<"t1">>, <<"t2">>}

\* Python's None, told apart from every list of tools.
None == <<"None">>

\* json.dumps(tools_data, indent=2): the text of a list, token by token.
dumps(tools_data) == <<"[">> \o tools_data \o <<"]">>

\* json.loads accepts a text: it is a whole list, both brackets present.
IsJson(content) ==
    /\ Len(content) >= 2
    /\ content[1] = "[" /\ content[Len(content)] = "]"
    /\ \A i \in 2..(Len(content) - 1) : content[i] \in ToolNames

loads(content) == SubSeq(content, 2, Len(content) - 1)

\* `_tool_cache if _tool_cache else []`
OrEmpty(cache) == IF cache = None \/ cache = <<>> THEN <<>> ELSE cache

\* Mutant: the file is reloaded only when it is newer or nothing is loaded.
NeedsReload_NoForce(force_reload, cache, current_mtime, last_modified) ==
    cache = None \/ current_mtime > last_modified

\* The reload condition of read_tool_cache.
NeedsReload(force_reload, cache, current_mtime, last_modified) ==
    force_reload \/ cache = None \/ current_mtime > last_modified

NoFile == [exists |-> FALSE, content |-> <<>>, mtime |-> 0]

IdleReader == [pc |-> "idle", call |-> 0, force_reload |-> FALSE, current_mtime |-> 0,
               content |-> <<>>, failed |-> FALSE, result |-> <<>>,
               path |-> "none", afterWrite |-> FALSE]

IdleWriter == [pc |-> "idle", data |-> <<>>]

\* What a read may meet when it opens the file.
IoOutcomes == {"ok", "oserror"}

\* A read_tool_cache call returns `result`, reached along `path`.
ReadReturns(rd, result, path) ==
    [rd EXCEPT !.pc = "returned", !.result = result, !.path = path,
               !.current_mtime = 0, !.content = <<>>, !.failed = FALSE]

\* An except branch of read_tool_cache: reset the mirror, return [].
ReadFails(r, rd, path) ==
    /\ _tool_cache' = <<>>
    /\ _tool_cache_last_modified' = 0
    /\ reader' = [reader EXCEPT ![r] = ReadReturns(rd, <<>>, path)]

\* read_tool_cache up to its first await: getmtime and the reload decision.
read_tool_cache(r, force_reload) ==
    /\ reader[r].pc \in {"idle", "returned"}
    /\ reads < MaxReads
    /\ reads' = reads + 1
    /\ LET rd == [reader[r] EXCEPT !.call = 1 - @, !.force_reload = force_reload,
                                   !.afterWrite = (writer.pc = "done")]
       IN  IF ~cache_file.exists
           THEN ReadFails(r, rd, "missing")
           ELSE IF NeedsReload(force_reload, _tool_cache, cache_file.mtime,
                               _tool_cache_last_modified)
           THEN /\ reader' = [reader EXCEPT ![r] =
                       [rd EXCEPT !.pc = "read", !.path = "loading",
                                  !.current_mtime = cache_file.mtime]]
                /\ UNCHANGED <<_tool_cache, _tool_cache_last_modified>>
           ELSE /\ reader' = [reader EXCEPT ![r] =
                       ReadReturns(rd, OrEmpty(_tool_cache), "mirror")]
                /\ UNCHANGED <<_tool_cache, _tool_cache_last_modified>>
    /\ UNCHANGED <<cache_file, writer, S_old, writes>>

\* await aiofiles.open(..., mode='r') and await f.read(): the worker thread
\* opens the file and reads what it holds now, or the open fails.
ReadContent(r, io) ==
    /\ reader[r].pc = "read"
    /\ IF io = "ok" /\ cache_file.exists
       THEN /\ reader' = [reader EXCEPT ![r].pc = "parse",
                                        ![r].content = cache_file.content,
                                        ![r].force_reload = FALSE]
            /\ UNCHANGED <<_tool_cache, _tool_cache_last_modified>>
       ELSE ReadFails(r, [reader[r] EXCEPT !.force_reload = FALSE], "oserror")
    /\ UNCHANGED <<cache_file, writer, S_old, reads, writes>>

\* The coroutine resumes: _tool_cache = json.loads(content), then the
\* file is closed (an await) whether or not loads raised.
ReadParse(r) ==
    /\ reader[r].pc = "parse"
    /\ IF IsJson(reader[r].content)
       THEN /\ _tool_cache' = loads(reader[r].content)
            /\ reader' = [reader EXCEPT ![r].pc = "close"]
       ELSE /\ reader' = [reader EXCEPT ![r].pc = "close", ![r].failed = TRUE]
            /\ UNCHANGED _tool_cache
    /\ UNCHANGED <<cache_file, _tool_cache_last_modified, writer, S_old, reads, writes>>

\* After the close: record the mtime and return the mirror, or handle the
\* JSONDecodeError.
ReadReturn(r) ==
    /\ reader[r].pc = "close"
    /\ IF reader[r].failed
       THEN ReadFails(r, reader[r], "error")
       ELSE /\ _tool_cache_last_modified' = reader[r].current_mtime
            /\ reader' = [reader EXCEPT ![r] =
                   ReadReturns(reader[r], OrEmpty(_tool_cache), "loaded")]
            /\ UNCHANGED _tool_cache
    /\ UNCHANGED <<cache_file, writer, S_old, reads, writes>>

\* write_tool_cache: aiofiles.open(..., mode='w') creates or truncates.
write_tool_cache(tools_data) ==
    /\ writer.pc \in {"idle", "done"}
    /\ writes < MaxWrites
    /\ writes' = writes + 1
    /\ writer' = [pc |-> "write", data |-> tools_data]
    /\ cache_file' = [exists |-> TRUE, content |-> <<>>, mtime |-> cache_file.mtime + 1]
    /\ UNCHANGED <<_tool_cache, _tool_cache_last_modified, reader, S_old, reads>>

\* await f.write(json.dumps(...)): the buffered file has passed on the
\* first k tokens of the text, any k.
WriteData(k) ==
    /\ writer.pc = "write"
    /\ writer' = [writer EXCEPT !.pc = "close"]
    /\ cache_file' = [cache_file EXCEPT
           !.content = Take(dumps(writer.data), k),
           !.mtime = IF k > 0 THEN @ + 1 ELSE @]
    /\ UNCHANGED <<_tool_cache, _tool_cache_last_modified, reader, S_old, reads, writes>>

\* Leaving the async with: the close flushes the rest of the text.
WriteClose ==
    /\ writer.pc = "close"
    /\ writer' = [writer EXCEPT !.pc = "done"]
    /\ cache_file' = [cache_file EXCEPT
           !.content = dumps(writer.data),
           !.mtime = IF cache_file.content # dumps(writer.data) THEN @ + 1 ELSE @]
    /\ UNCHANGED <<_tool_cache, _tool_cache_last_modified, reader, S_old, reads, writes>>

\* Module load: nothing cached; no cache call is made.
InitMirror ==
    /\ _tool_cache = None
    /\ _tool_cache_last_modified = 0
    /\ reader = [r \in Readers |-> IdleReader]
    /\ writer = IdleWriter
    /\ reads = 0
    /\ writes = 0

InitCacheIdle ==
    /\ InitMirror
    /\ cache_file = NoFile
    /\ S_old = None



(***************************************************************************)
(* Sync cycle: sync_service.sync_tools, fetch_all_tools_async              *)
(***************************************************************************)
\* Tool names of the sync model.  "core" is a platform tool that is not an
\* MCP tool; "a" and "b" are MCP tools offered by servers "s1" and "s2";
\* "old" names a Vector Store object the platform knows nothing about.
PlatformNames == {"core", "a", "b"}

StoreNames == PlatformNames \cup {"old"}

McpServers == {"s1", "s2"}

NameOrder == <<"core", "a", "b", "old">>

SyncToolType(n) == IF n = "core" THEN "custom" ELSE "external_mcp"

HomeServer(n) == IF n = "a" THEN "s1" ELSE IF n = "b" THEN "s2" ELSE NoServer

\* The two triggers of a cycle: the timer of the sync service process
\* (schedule.every(...).do(run_sync_job)) and POST /api/v1/tools/sync, which
\* runs sync_tools inside the API server process.
Triggers == {"timer", "manual"}

NoNames == {}

IdleSyncer == [pc |-> "idle", letta_tools |-> NoNames, active |-> NoNames,
               weaviate_tool_names |-> NoNames, wrote |-> FALSE]

\* GET /tools: the tools registered on the platform (tools_by_name); a
\* failed request is caught and leaves the map empty.
MainTools(main_ok) == IF main_ok THEN platform_tools ELSE NoNames

\* GET /tools/mcp/servers: the active servers; a failed request is caught
\* and leaves the map empty.
ActiveServers(list_ok) == IF list_ok THEN mcp_servers ELSE NoNames

\* The tools listed by the active servers whose listing succeeded.
ListedTools(servers, srv_ok) ==
    {n \in PlatformNames : HomeServer(n) \in servers \cap srv_ok}

\* tool_data.get("mcp_server_name") at the filter: the server that listed the
\* tool in this cycle, else what the platform record carries.
ServerOrigin(n, listed) ==
    IF n \in listed THEN HomeServer(n)
    ELSE IF platform_tags THEN HomeServer(n)
    ELSE NoServer

\* The filter: an external_mcp tool is excluded when it has no server of
\* origin or its server is not among the active ones.
FilteredTools(all, listed, servers) ==
    {n \in all : SyncToolType(n) = "external_mcp" =>
                    /\ ServerOrigin(n, listed) # NoServer
                    /\ ServerOrigin(n, listed) \in servers}

\* The list fetch_all_tools_async returns.  Listed tools missing from the
\* platform are registered; those whose registration fails are added with
\* defaults all the same.
fetch_all_tools_async(main_ok, list_ok, srv_ok) ==
    LET servers == ActiveServers(list_ok)
        listed == ListedTools(servers, srv_ok)
    IN  FilteredTools(MainTools(main_ok) \cup listed, listed, servers)

\* The tools register_tool_async puts on the platform during the fetch.
Registered(main_ok, list_ok, srv_ok, reg_ok) ==
    (ListedTools(ActiveServers(list_ok), srv_ok) \ MainTools(main_ok)) \cap reg_ok

\* json.dump of the list, in the order of the map.
CatalogOf(names) == dumps(FilterSeq(NameOrder, names))

\* names of the descriptors in the cache file, if it holds a list.
CatalogNames == IF cache_file.exists THEN Range(loads(cache_file.content)) ELSE NoNames

\* What the remote calls of a step may do in this behaviour.
Oks(rel) == IF rel THEN {TRUE} ELSE BOOLEAN

OkSets(rel, S) == IF rel THEN {S} ELSE SUBSET S

\* A trigger fires: sync_tools starts.
sync_tools(p) ==
    /\ p \in enabled_triggers
    /\ syncer[p].pc = "idle"
    /\ syncer' = [syncer EXCEPT ![p].pc = "fetch"]
    /\ UNCHANGED <<platform_tools, platform_tags, mcp_servers, weaviate,
                   enabled_triggers, cacheVars>>

\* letta_tools = await fetch_all_tools_async(); an empty list aborts the
\* cycle before anything is written.
SyncFetch(p, main_ok, list_ok, srv_ok, reg_ok) ==
    /\ syncer[p].pc = "fetch"
    /\ LET letta_tools == fetch_all_tools_async(main_ok, list_ok, srv_ok)
       IN  syncer' = [syncer EXCEPT
               ![p].letta_tools = letta_tools,
               ![p].active = ActiveServers(list_ok),
               ![p].pc = IF letta_tools = NoNames THEN "closing" ELSE "write_cache"]
    /\ platform_tools' = platform_tools \cup Registered(main_ok, list_ok, srv_ok, reg_ok)
    /\ UNCHANGED <<platform_tags, mcp_servers, weaviate, enabled_triggers, cacheVars>>

\* await write_tool_cache(letta_tools)
SyncWriteCache(p) ==
    /\ syncer[p].pc = "write_cache"
    /\ cache_file' = [exists |-> TRUE,
                      content |-> CatalogOf(syncer[p].letta_tools),
                      mtime |-> cache_file.mtime + 1]
    /\ syncer' = [syncer EXCEPT ![p].wrote = TRUE, ![p].pc = "store_fetch"]
    /\ UNCHANGED <<platform_tools, platform_tags, mcp_servers, weaviate, enabled_triggers,
                   _tool_cache, _tool_cache_last_modified, reader, writer,
                   S_old, reads, writes>>

\* get_weaviate_tools: the names in the collection, or nothing on an error.
get_weaviate_tools(ok) == IF ok THEN weaviate ELSE NoNames

SyncFetchStore(p, ok) ==
    /\ syncer[p].pc = "store_fetch"
    /\ syncer' = [syncer EXCEPT ![p].weaviate_tool_names = get_weaviate_tools(ok),
                                ![p].pc = "remove"]
    /\ UNCHANGED <<platform_tools, platform_tags, mcp_servers, weaviate,
                   enabled_triggers, cacheVars>>

\* obsolete_tool_names = weaviate_tool_names - letta_tool_names, each
\* removed with delete_many; a failed removal is logged and skipped.
ObsoleteToolNames(p) == syncer[p].weaviate_tool_names \ syncer[p].letta_tools

SyncRemove(p) ==
    /\ syncer[p].pc = "remove"
    /\ \E deleted \in OkSets(reliable, ObsoleteToolNames(p)) :
           weaviate' = weaviate \ deleted
    /\ syncer' = [syncer EXCEPT ![p].pc = "add"]
    /\ UNCHANGED <<platform_tools, platform_tags, mcp_servers, enabled_triggers, cacheVars>>

\* new_tool_names = letta_tool_names - weaviate_tool_names, added in a batch.
NewToolNames(p) == syncer[p].letta_tools \ syncer[p].weaviate_tool_names

SyncAdd(p) ==
    /\ syncer[p].pc = "add"
    /\ \E added \in OkSets(reliable, NewToolNames(p)) :
           weaviate' = weaviate \cup added
    /\ syncer' = [syncer EXCEPT ![p].pc = "closing"]
    /\ UNCHANGED <<platform_tools, platform_tags, mcp_servers, enabled_triggers, cacheVars>>

\* finally: the connections are closed and the cycle is over.
SyncClose(p) ==
    /\ syncer[p].pc = "closing"
    /\ syncer' = [syncer EXCEPT ![p].pc = "done"]
    /\ UNCHANGED <<platform_tools, platform_tags, mcp_servers, weaviate,
                   enabled_triggers, cacheVars>>

\* No cycle is run: the sync service is not part of the behaviour.
InitSyncIdle ==
    /\ platform_tools = NoNames
    /\ platform_tags = FALSE
    /\ mcp_servers = NoNames
    /\ weaviate = NoNames
    /\ enabled_triggers = NoNames
    /\ syncer = [p \in Triggers |-> IdleSyncer]

(***************************************************************************)
(* The HTTP surface of api_server: shared handle, request bodies           *)
(***************************************************************************)
\* States of the shared handle: None, or a client that is not connected,
\* connected but not ready, or connected and ready.
HandleStates == {"none", "not_connected", "not_ready", "ready"}

\* States of the MCP-server cache file for a reader.
FileStates == {"ok", "missing", "malformed"}

\* The id keys a catalog descriptor may carry.
IdKeys == {"id", "tool_id"}

\* A key the JSON body does not carry.
Absent == "<absent>"

NoRequest == [route |-> "none"]

NoDetails == [weaviate |-> "", tool_cache_in_memory |-> "", mcp_servers_cache_file |-> ""]

NoResponse == [route |-> "none", code |-> 0, status |-> "", error |-> "",
               details |-> NoDetails]

\* Startup has left a ready handle; no request has been received.
InitFacadeIdle ==
    /\ weaviate_client = "ready"
    /\ mcp_servers_cache_file = "ok"
    /\ request_body = NoRequest
    /\ http_response = NoResponse
    /\ init_attempts = 0
    /\ _tool_cache_keys = [id \in Catalog |-> IdKeys]
    /\ cache_file_keys = [id \in Catalog |-> IdKeys]

(***************************************************************************)
(* fetch_all_tools.py: the paged listing of one URL                        *)
(***************************************************************************)
\* `limit` of a page request (1000 by default) and the longest listing.
PageLimit == 2

MaxListing == 5

\* retries = 3, delay = 1
retries == 3

delay == 1

\* `after = None`
NoCursor == 0

\* The k-th tool a URL serves: a dict with an "id" key, or one without.
\* Ids the platform gives are non-empty strings, so a present id is truthy.
Item(k, has_id) == [name |-> k, has_id |-> has_id, id |-> IF has_id THEN k ELSE NoCursor]

\* What one URL may serve: any number of tools, at most one without an id.
Listings ==
    {[i \in 1..n |-> Item(i, i # hole)] : n \in 0..MaxListing, hole \in 0..MaxListing}

\* The platform's answer to params {limit, after}: the tools that follow the
\* one whose id is the cursor, at most `limit` of them.
ServePage(tools, after) ==
    LET start == IF after = NoCursor THEN 1
                 ELSE 1 + CHOOSE i \in 1..Len(tools) : tools[i].has_id /\ tools[i].id = after
        last == IF start + PageLimit - 1 < Len(tools) THEN start + PageLimit - 1 ELSE Len(tools)
    IN  SubSeq(tools, start, last)

\* The first k pages of a server_tools, concatenated.
FirstPages(tools, k) ==
    SubSeq(tools, 1, IF k * PageLimit < Len(tools) THEN k * PageLimit ELSE Len(tools))

IdlePager == [pc |-> "idle", all_tools |-> <<>>, after |-> NoCursor,
              current_retries |-> 0, delay |-> 0,
              attempts |-> 0, requests |-> 0, pages |-> 0,
              slept |-> <<>>, last |-> "none"]

\* Statuses raise_for_status turns into ClientResponseError.
ErrorStatuses == {404, 429, 500, 503}

\* The call starts: all_tools = [], after = None, and the first page request
\* is sent with current_retries = retries.
fetch_tools_from_server_async ==
    /\ pager.pc = "idle"
    /\ pager' = [IdlePager EXCEPT !.pc = "request", !.current_retries = retries,
                                  !.delay = delay, !.attempts = 1, !.requests = 1]
    /\ UNCHANGED <<registration, server_tools, registry, collection, mcp_servers_cache, cycle>>

\* A request is sent for the same page again, or for the next one.
Resend(p) == [p EXCEPT !.attempts = @ + 1, !.requests = @ + 1]

NextPage(p, cursor) ==
    [p EXCEPT !.after = cursor, !.current_retries = retries,
              !.attempts = 1, !.requests = @ + 1, !.pages = @ + 1]

\* A 2xx answer: a JSON list, or a body that is not JSON and counts as [].
\* The page is appended; a short page, or a last item without "id", ends the
\* call, else the id of the last item becomes the cursor of the next request.
PageReceived(json) ==
    /\ pager.pc = "request"
    /\ LET tools == IF json THEN ServePage(server_tools, pager.after) ELSE <<>>
           got == [pager EXCEPT !.all_tools = @ \o tools, !.last = "page"]
       IN  pager' =
             IF Len(tools) < PageLimit
             THEN [got EXCEPT !.pc = "returned", !.pages = @ + 1]
             ELSE IF tools # <<>> /\ tools[Len(tools)].has_id
             THEN NextPage(got, tools[Len(tools)].id)
             ELSE [got EXCEPT !.pc = "returned", !.pages = @ + 1]
    /\ UNCHANGED <<registration, server_tools, registry, collection, mcp_servers_cache, cycle>>

\* current_retries -= 1; at 0 the call returns what it has, else it sleeps
\* `delay` seconds, doubles the delay and sends the request again.
Retry(p) ==
    IF p.current_retries - 1 = 0
    THEN [p EXCEPT !.current_retries = 0, !.pc = "returned"]
    ELSE Resend([p EXCEPT !.current_retries = @ - 1,
                          !.slept = Append(@, p.delay),
                          !.delay = @ * 2])

\* Mutant: a 4xx answer is retried like any other status.
ClientResponseError_RetryAll(status) ==
    /\ pager.pc = "request"
    /\ pager' = Retry([pager EXCEPT !.last = IF status < 500 THEN "4xx" ELSE "5xx"])
    /\ UNCHANGED <<registration, server_tools, registry, collection, mcp_servers_cache, cycle>>

\* except aiohttp.ClientResponseError: a 4xx status ends the call at once,
\* any other status is retried.
ClientResponseError(status) ==
    /\ pager.pc = "request"
    /\ pager' = IF 400 <= status /\ status < 500
                THEN [pager EXCEPT !.last = "4xx", !.pc = "returned"]
                ELSE Retry([pager EXCEPT !.last = "5xx"])
    /\ UNCHANGED <<registration, server_tools, registry, collection, mcp_servers_cache, cycle>>

\* except aiohttp.ClientError: a transport error is retried.
ClientError ==
    /\ pager.pc = "request"
    /\ pager' = Retry([pager EXCEPT !.last = "transport"])
    /\ UNCHANGED <<registration, server_tools, registry, collection, mcp_servers_cache, cycle>>

\* except Exception (the 60 s total timeout among them): the call returns
\* what it has, without another attempt.
UnexpectedError ==
    /\ pager.pc = "request"
    /\ pager' = [pager EXCEPT !.last = "unexpected", !.pc = "returned"]
    /\ UNCHANGED <<registration, server_tools, registry, collection, mcp_servers_cache, cycle>>

(***************************************************************************)
(* fetch_all_tools.py and sync_service.py: one sync cycle, descriptor by   *)
(* descriptor                                                              *)
(***************************************************************************)
\* Ids: the one a name is registered under when the behaviour begins, the
\* one a registration made during the cycle returns, and the one an object
\* of the Vector Store got from an earlier registration of its name.
OldId == "id1"

NewId == "id2"

StaleId == "id0"

\* GET /tools serves the registered tools in the platform's order.
MainListing == FilterSeq(NameOrder, platform_tools)

\* Requests a complete listing takes: the last page is the first short one.
PagesOf(tools) == (Len(tools) \div PageLimit) + 1

\* Mutant: the names of the whole registry, whatever was fetched.
MainFetched_Whole(k) == Range(MainListing)

\* Names fetch_tools_from_server_async returns for GET /tools when only the
\* first k page requests succeed.
MainFetched(k) == Range(FirstPages(MainListing, k))

\* A record of GET /tools.
PlatformDescriptor(n) ==
    [name |-> n, id |-> registry[n], tool_type |-> SyncToolType(n),
     mcp_server_name |-> IF platform_tags /\ SyncToolType(n) = "external_mcp"
                         THEN HomeServer(n) ELSE NoServer]

\* tools_to_register: listed by a server, name not in tools_by_name.
tools_to_register(main, listed) == listed \ main

\* register_tool_async succeeding: the platform answers with the tool's id.
RegisteredId(n) == IF registry[n] # Absent THEN registry[n] ELSE NewId

\* Mutant: a tool whose registration failed is left out of the map.
tools_by_name_DropFailed(main, listed, reg_ok) ==
    {IF d.name \in listed /\ d.mcp_server_name = NoServer
     THEN [d EXCEPT !.mcp_server_name = HomeServer(d.name)] ELSE d :
        d \in {PlatformDescriptor(n) : n \in main}}
    \cup {[name |-> n, id |-> RegisteredId(n), tool_type |-> "external_mcp",
           mcp_server_name |-> HomeServer(n)] :
             n \in tools_to_register(main, listed) \cap reg_ok}

\* tools_by_name before the filter: the main records, tagged with the server
\* that listed them if they carry none; the registered tools with the id of
\* their registration; the tools whose registration failed, with defaults.
tools_by_name(main, listed, reg_ok) ==
    {IF d.name \in listed /\ d.mcp_server_name = NoServer
     THEN [d EXCEPT !.mcp_server_name = HomeServer(d.name)] ELSE d :
        d \in {PlatformDescriptor(n) : n \in main}}
    \cup {[name |-> n, id |-> RegisteredId(n), tool_type |-> "external_mcp",
           mcp_server_name |-> HomeServer(n)] :
             n \in tools_to_register(main, listed) \cap reg_ok}
    \cup {[name |-> n, id |-> Absent, tool_type |-> "external_mcp",
           mcp_server_name |-> HomeServer(n)] :
             n \in tools_to_register(main, listed) \ reg_ok}

\* Mutant: without a server list the descriptors are not filtered.
filtered_tools_by_name_UnlessNoList(tools, servers) ==
    IF servers = {} THEN tools
    ELSE {d \in tools : d.tool_type = "external_mcp" =>
                            /\ d.mcp_server_name # NoServer
                            /\ d.mcp_server_name \in servers}

\* The filter on descriptors: an external_mcp tool without a server of
\* origin, or with one that is not active, is excluded.
filtered_tools_by_name(tools, servers) ==
    {d \in tools : d.tool_type = "external_mcp" =>
                      /\ d.mcp_server_name # NoServer
                      /\ d.mcp_server_name \in servers}

\* The list fetch_all_tools_async returns, as descriptors.
FetchedDescriptors(main_pages, list_ok, srv_ok, reg_ok) ==
    LET servers == ActiveServers(list_ok)
        listed == ListedTools(servers, srv_ok)
    IN  filtered_tools_by_name(
            tools_by_name(MainFetched(main_pages), listed, reg_ok), servers)

Names(S) == {d.name : d \in S}

\* store_errors: a call to the Vector Store failed in this cycle (each is
\* logged with logger.error and the cycle goes on or ends).
NoSnapshot == [taken |-> FALSE]

IdleCycle == [pc |-> "idle", letta_tools |-> {}, active |-> NoNames,
              weaviate_tool_names |-> NoNames, log |-> <<>>,
              main_pages |-> 0, list_ok |-> TRUE,
              registered |-> NoNames, failed_registration |-> NoNames,
              missing_vars |-> FALSE, store_errors |-> FALSE,
              start |-> NoSnapshot]

\* sync_tools starts; a required environment variable that is missing ends
\* it before anything is fetched.
CycleStart(missing_vars) ==
    /\ cycle.pc = "idle"
    /\ cycle' = [cycle EXCEPT
           !.pc = IF missing_vars THEN "done" ELSE "fetch",
           !.missing_vars = missing_vars,
           !.start = [taken |-> TRUE, collection |-> collection,
                      cache_file |-> cache_file,
                      mcp_servers_cache |-> mcp_servers_cache,
                      registry |-> registry]]
    /\ UNCHANGED <<registration, server_tools, pager, registry, collection, mcp_servers_cache,
                   platform_tools, platform_tags, mcp_servers, weaviate,
                   enabled_triggers, syncer, cacheVars>>

\* Mutant: an empty list is synchronised like any other.
CycleFetch_NoAbort(main_pages, list_ok, srv_ok, reg_ok) ==
    /\ cycle.pc = "fetch"
    /\ LET main == MainFetched(main_pages)
           listed == ListedTools(ActiveServers(list_ok), srv_ok)
           done == tools_to_register(main, listed) \cap reg_ok
           letta_tools == FetchedDescriptors(main_pages, list_ok, srv_ok, reg_ok)
       IN  /\ cycle' = [cycle EXCEPT
                  !.letta_tools = letta_tools,
                  !.active = ActiveServers(list_ok),
                  !.main_pages = main_pages,
                  !.list_ok = list_ok,
                  !.registered = done,
                  !.failed_registration = tools_to_register(main, listed) \ reg_ok,
                  !.pc = "write_cache"]
           /\ registry' = [n \in PlatformNames |->
                            IF n \in done THEN RegisteredId(n) ELSE registry[n]]
           /\ platform_tools' = platform_tools \cup done
    /\ UNCHANGED <<registration, server_tools, pager, collection, mcp_servers_cache,
                   platform_tags, mcp_servers, weaviate,
                   enabled_triggers, syncer, cacheVars>>

\* letta_tools = await fetch_all_tools_async(); `if not letta_tools: return`.
\* A registration that succeeds puts the tool on the platform.
CycleFetch(main_pages, list_ok, srv_ok, reg_ok) ==
    /\ cycle.pc = "fetch"
    /\ LET main == MainFetched(main_pages)
           listed == ListedTools(ActiveServers(list_ok), srv_ok)
           done == tools_to_register(main, listed) \cap reg_ok
           letta_tools == FetchedDescriptors(main_pages, list_ok, srv_ok, reg_ok)
       IN  /\ cycle' = [cycle EXCEPT
                  !.letta_tools = letta_tools,
                  !.active = ActiveServers(list_ok),
                  !.main_pages = main_pages,
                  !.list_ok = list_ok,
                  !.registered = done,
                  !.failed_registration = tools_to_register(main, listed) \ reg_ok,
                  !.pc = IF letta_tools = {} THEN "closing" ELSE "write_cache"]
           /\ registry' = [n \in PlatformNames |->
                            IF n \in done THEN RegisteredId(n) ELSE registry[n]]
           /\ platform_tools' = platform_tools \cup done
    /\ UNCHANGED <<registration, server_tools, pager, collection, mcp_servers_cache,
                   platform_tags, mcp_servers, weaviate,
                   enabled_triggers, syncer, cacheVars>>

\* Mutant: the cycle goes on to the Vector Store without writing the file.
CycleWriteToolCache_Skip ==
    /\ cycle.pc = "write_cache"
    /\ cycle' = [cycle EXCEPT !.pc = "mcp_servers"]
    /\ UNCHANGED <<registration, server_tools, pager, registry, collection, mcp_servers_cache,
                   platform_tools, platform_tags, mcp_servers, weaviate,
                   enabled_triggers, syncer, cacheVars>>

\* await write_tool_cache(letta_tools): the first thing done with the list.
CycleWriteToolCache ==
    /\ cycle.pc = "write_cache"
    /\ cache_file' = [exists |-> TRUE,
                      content |-> CatalogOf(Names(cycle.letta_tools)),
                      mtime |-> cache_file.mtime + 1]
    /\ cycle' = [cycle EXCEPT !.pc = "mcp_servers", !.log = Append(@, "tool_cache")]
    /\ UNCHANGED <<registration, server_tools, pager, registry, collection, mcp_servers_cache,
                   platform_tools, platform_tags, mcp_servers, weaviate,
                   enabled_triggers, syncer,
                   _tool_cache, _tool_cache_last_modified, reader, writer,
                   S_old, reads, writes>>

\* "Fetch MCP Servers": sync_tools asks for the server list itself and
\* writes it to the MCP-server cache; a failed request skips the write.
CycleFetchMcpServers(ok) ==
    /\ cycle.pc = "mcp_servers"
    /\ IF ok
       THEN /\ mcp_servers_cache' = [exists |-> TRUE, servers |-> mcp_servers,
                                     mtime |-> mcp_servers_cache.mtime + 1]
            /\ cycle' = [cycle EXCEPT !.pc = "store_fetch",
                                      !.log = Append(@, "mcp_cache")]
       ELSE /\ UNCHANGED mcp_servers_cache
            /\ cycle' = [cycle EXCEPT !.pc = "store_fetch"]
    /\ UNCHANGED <<registration, server_tools, pager, registry, collection,
                   platform_tools, platform_tags, mcp_servers, weaviate,
                   enabled_triggers, syncer, cacheVars>>

\* connect_to_local and get_or_create_tool_schema raise on failure, which
\* ends the cycle; get_weaviate_tools returns {} on an error of its own.
CycleFetchStore(connected, ok) ==
    /\ cycle.pc = "store_fetch"
    /\ cycle' = IF connected
                THEN [cycle EXCEPT
                        !.weaviate_tool_names = IF ok THEN Names(collection) ELSE NoNames,
                        !.store_errors = ~ok,
                        !.pc = "remove"]
                ELSE [cycle EXCEPT !.pc = "closing", !.store_errors = TRUE]
    /\ UNCHANGED <<registration, server_tools, pager, registry, collection, mcp_servers_cache,
                   platform_tools, platform_tags, mcp_servers, weaviate,
                   enabled_triggers, syncer, cacheVars>>

\* obsolete_tool_names: delete_many by name, each failure logged and skipped.
CycleObsolete == cycle.weaviate_tool_names \ Names(cycle.letta_tools)

CycleRemove(deleted) ==
    /\ cycle.pc = "remove"
    /\ deleted \subseteq CycleObsolete
    /\ collection' = {o \in collection : o.name \notin deleted}
    /\ cycle' = [cycle EXCEPT
           !.pc = "add",
           !.store_errors = IF deleted = CycleObsolete THEN @ ELSE TRUE,
           !.log = IF collection' # collection THEN Append(@, "delete") ELSE @]
    /\ UNCHANGED <<registration, server_tools, pager, registry, mcp_servers_cache,
                   platform_tools, platform_tags, mcp_servers, weaviate,
                   enabled_triggers, syncer, cacheVars>>

\* properties of a new object: tool_id = id or tool_id or "", tool_type,
\* mcp_server_name unless it is None.
NewObject(d) ==
    [name |-> d.name, tool_id |-> IF d.id = Absent THEN "" ELSE d.id,
     tool_type |-> d.tool_type, mcp_server_name |-> d.mcp_server_name,
     born |-> "cycle"]

\* new_tool_names, added in one batch.
CycleNew == Names(cycle.letta_tools) \ cycle.weaviate_tool_names

CycleAdd(added) ==
    /\ cycle.pc = "add"
    /\ added \subseteq CycleNew
    /\ collection' = collection \cup
                       {NewObject(d) : d \in {t \in cycle.letta_tools : t.name \in added}}
    /\ cycle' = [cycle EXCEPT
           !.pc = "backfill",
           !.store_errors = IF added = CycleNew THEN @ ELSE TRUE,
           !.log = IF collection' # collection THEN Append(@, "insert") ELSE @]
    /\ UNCHANGED <<registration, server_tools, pager, registry, mcp_servers_cache,
                   platform_tools, platform_tags, mcp_servers, weaviate,
                   enabled_triggers, syncer, cacheVars>>

\* tool_origin_map: name -> mcp_server_name of the external_mcp descriptors.
tool_origin_map(n) ==
    IF \E d \in cycle.letta_tools :
          d.name = n /\ d.tool_type = "external_mcp" /\ d.mcp_server_name # NoServer
    THEN (CHOOSE d \in cycle.letta_tools : d.name = n).mcp_server_name
    ELSE NoServer

\* updates_to_make: external_mcp objects without mcp_server_name whose
\* origin is known.
updates_to_make ==
    {o \in collection : /\ o.tool_type = "external_mcp"
                        /\ o.mcp_server_name = NoServer
                        /\ tool_origin_map(o.name) # NoServer}

\* Mutant: the backfill rewrites tool_id from the catalog as well.
CycleBackfill_Rewrite(updated) ==
    /\ cycle.pc = "backfill"
    /\ updated \subseteq updates_to_make
    /\ collection' = {IF o \in updated
                      THEN [o EXCEPT !.mcp_server_name = tool_origin_map(o.name),
                                     !.tool_id = NewId]
                      ELSE o : o \in collection}
    /\ cycle' = [cycle EXCEPT
           !.pc = "closing",
           !.store_errors = IF updated = updates_to_make THEN @ ELSE TRUE,
           !.log = IF collection' # collection THEN Append(@, "update") ELSE @]
    /\ UNCHANGED <<registration, server_tools, pager, registry, mcp_servers_cache,
                   platform_tools, platform_tags, mcp_servers, weaviate,
                   enabled_triggers, syncer, cacheVars>>

\* Backfill: collection.data.update(uuid, {"mcp_server_name": origin}) for
\* each of them, a failed update being logged and skipped.
CycleBackfill(updated) ==
    /\ cycle.pc = "backfill"
    /\ updated \subseteq updates_to_make
    /\ collection' = {IF o \in updated
                      THEN [o EXCEPT !.mcp_server_name = tool_origin_map(o.name)]
                      ELSE o : o \in collection}
    /\ cycle' = [cycle EXCEPT
           !.pc = "closing",
           !.store_errors = IF updated = updates_to_make THEN @ ELSE TRUE,
           !.log = IF collection' # collection THEN Append(@, "update") ELSE @]
    /\ UNCHANGED <<registration, server_tools, pager, registry, mcp_servers_cache,
                   platform_tools, platform_tags, mcp_servers, weaviate,
                   enabled_triggers, syncer, cacheVars>>

\* finally: the connections are closed.
CycleClose ==
    /\ cycle.pc = "closing"
    /\ cycle' = [cycle EXCEPT !.pc = "done"]
    /\ UNCHANGED <<registration, server_tools, pager, registry, collection, mcp_servers_cache,
                   platform_tools, platform_tags, mcp_servers, weaviate,
                   enabled_triggers, syncer, cacheVars>>

(***************************************************************************)
(* Registration of an MCP tool: tool_finder_agent.register_mcp_tool and    *)
(* api_server.register_tool                                                *)
(***************************************************************************)
\* The id the platform puts in a registration response that carries one.
RegisteredToolId == <<"tool-1">>

\* f"{server_name}__{tool_name}"
SynthesizedId(server_name, tool_name) == <<server_name, "__", tool_name>>

\* Answers to POST /tools/mcp/servers/{server}/{tool}: a JSON object with
\* any of the id keys, a 2xx body that is no JSON object, an error status,
\* a transport error.
RegistrationResponses ==
    {[kind |-> "dict", keys |-> K] : K \in SUBSET IdKeys}
        \cup {[kind |-> k, keys |-> {}] : k \in {"text", "list", "http_error", "transport"}}

\* Mutant: without an id in the response the registration counts as failed.
register_mcp_tool_NoFallback(tool_name, server_name, response) ==
    IF response.kind = "dict" /\ response.keys # {} THEN RegisteredToolId ELSE None

\* tool_finder_agent.register_mcp_tool: the id of the response, or the
\* constructed id when the object has none; None for anything else.
register_mcp_tool(tool_name, server_name, response) ==
    IF response.kind = "dict"
    THEN IF response.keys # {} THEN RegisteredToolId
         ELSE SynthesizedId(server_name, tool_name)
    ELSE None

\* api_server.register_tool as process_matching_tool sees it: the
\* descriptor, both id keys filled, when the response carries an id; None
\* when it carries none; an exception, caught by the caller, otherwise.
register_tool(tool_name, server_name, response) ==
    IF response.kind = "dict" /\ response.keys # {} THEN RegisteredToolId ELSE None

IdleRegistration ==
    [pc |-> "idle", by |-> "none", tool_name |-> "a", server_name |-> "s1",
     response |-> [kind |-> "none", keys |-> {}], tool_id |-> None,
     attach_requests |-> {}]

\* Step 4c of attach_tools_to_agent: a name found on an MCP server is
\* registered, and resolved when register_mcp_tool returns an id.
FinderRegisters(response) ==
    /\ registration.pc = "idle"
    /\ registration' = [registration EXCEPT
           !.pc = "resolved", !.by = "tool_finder_agent", !.response = response,
           !.tool_id = register_mcp_tool(registration.tool_name,
                                         registration.server_name, response)]
    /\ UNCHANGED <<server_tools, pager, registry, collection, mcp_servers_cache, cycle>>

\* process_matching_tool for a hit without an id in the catalog cache: the
\* hit is registered through its server and dropped if register_tool
\* returns None or raises.
EngineRegisters(response) ==
    /\ registration.pc = "idle"
    /\ registration' = [registration EXCEPT
           !.pc = "resolved", !.by = "api_server", !.response = response,
           !.tool_id = register_tool(registration.tool_name,
                                     registration.server_name, response)]
    /\ UNCHANGED <<server_tools, pager, registry, collection, mcp_servers_cache, cycle>>

\* Step 5 of attach_tools_to_agent, and the attach batch of process_tools:
\* one attach request per resolved tool, with its id.
IssueAttachRequests ==
    /\ registration.pc = "resolved"
    /\ registration' = [registration EXCEPT
           !.pc = "attached",
           !.attach_requests = IF registration.tool_id = None THEN {}
                               ELSE {registration.tool_id}]
    /\ UNCHANGED <<server_tools, pager, registry, collection, mcp_servers_cache, cycle>>

NoCacheFile == [exists |-> FALSE, servers |-> NoNames, mtime |-> 0]

\* No server_tools is fetched and no detailed cycle is run.
InitFetchIdle ==
    /\ server_tools = <<>>
    /\ pager = IdlePager
    /\ registry = [n \in PlatformNames |-> Absent]
    /\ collection = {}
    /\ mcp_servers_cache = NoCacheFile
    /\ cycle = IdleCycle
    /\ registration = IdleRegistration


(***************************************************************************)
(* Agent Platform, as the engine sees it                                   *)
(***************************************************************************)

\* GET /agents/{id}/tools: the tool dicts of the attached tools. The
\* platform may list a tool twice and may list a dict without an id.
AgentToolsListing(att, dup, anon) ==
    LET ids  == FilterSeq(PlatformOrder, att)
        base == [i \in 1..Len(ids) |-> [id |-> ids[i], tool_type |-> ToolType(ids[i])]]
    IN  base \o (IF dup THEN base ELSE <<>>)
             \o (IF anon THEN <<[id |-> NoId, tool_type |-> "external_mcp"]>> ELSE <<>>)

\* search_tools(query, limit): at most limit objects of the ranking, or
\* the empty list when the Vector Store query fails.
search_tools(up, limit) == IF up THEN Take(ranking, limit) ELSE <<>>

\* Iteration order of a Python set.
SetOrder(S) == FilterSeq(hashOrder, S)

(***************************************************************************)
(* _perform_tool_pruning: the decision, step by step                      *)
(***************************************************************************)

\* Mutant: the partition forgets to test tool_type.
McpToolsOnAgent_AnyType(listing) ==
    {listing[i].id : i \in {j \in 1..Len(listing) : listing[j].id # NoId}}

\* Step 1: ids of the listed tools with an id and tool_type external_mcp.
McpToolsOnAgent(listing) ==
    {listing[i].id : i \in {j \in 1..Len(listing) :
        listing[j].id # NoId /\ listing[j].tool_type = "external_mcp"}}

CoreToolsOnAgent(listing) ==
    {listing[i].id : i \in {j \in 1..Len(listing) :
        listing[j].id # NoId /\ listing[j].tool_type # "external_mcp"}}

\* Step 2: math.floor(N * (1.0 - drop_rate)) in IEEE double arithmetic, for
\* drop_rate = d/10. 1.0 - 0.8 and 1.0 - 0.9 round below 0.2 and 0.1, so a
\* product that is whole in decimal arithmetic falls just under it.
NumMcpToolsToKeep(n, d) ==
    LET exact == (n * (10 - d)) \div 10
        below == n > 0 /\ ((d = 8 /\ n % 5 = 0) \/ (d = 9 /\ n % 10 = 0))
    IN  IF below THEN exact - 1 ELSE exact

\* search_limit = max(num_mcp_tools_to_keep + 50, 100)
SearchLimit(t) == Max(t + 50, 100)

\* Step 3: the library results, first occurrence of each id, in rank order.
RECURSIVE DedupTop(_, _)
DedupTop(data, seen) ==
    IF data = <<>> THEN <<>>
    ELSE LET t == Head(data)
         IN  IF t.id # NoId /\ t.id \notin seen
             THEN <<t>> \o DedupTop(Tail(data), seen \cup {t.id})
             ELSE DedupTop(Tail(data), seen)

OrderedTopLibraryToolInfo(data) == DedupTop(data, {})

\* Step 4, start: the must-keep ids that are MCP tools of the agent.
MustKeep(newly, keep, cur) == (newly \cap cur) \cup (keep \cap cur)

\* Mutant: the aggressive target is the current count itself.
AggressiveTarget_Whole(n) == Max(1, n)

\* aggressive_target = max(1, math.floor(N * 0.8))
AggressiveTarget(n) == Max(1, (n * 8) \div 10)

\* Add the ids of s in order while fewer than limit ids are held.
RECURSIVE AddUpTo(_, _, _)
AddUpTo(s, acc, limit) ==
    IF s = <<>> THEN acc
    ELSE AddUpTo(Tail(s),
                 IF Cardinality(acc) < limit THEN acc \cup {Head(s)} ELSE acc,
                 limit)

\* ids of the library entries of type external_mcp that are in S, in rank order
RankedMcpIn(top, S) ==
    LET sel == SelectSeq(top, LAMBDA t : t.tool_type = "external_mcp" /\ t.id \in S)
    IN  [i \in 1..Len(sel) |-> sel[i].id]

\* Mutant: must-keep ids the library does not rank fill the places left.
PrioritizedKeeps_Filled(newly, cur, must, top, target) ==
    AddUpTo(SetOrder(must),
            AddUpTo(RankedMcpIn(top, must),
                    AddUpTo(SetOrder(newly \cap cur), {}, target),
                    target),
            target)

\* Aggressive mode, must-keep set above the aggressive target: newly
\* matched ids first, then must-keep ids in library rank order.
PrioritizedKeeps(newly, cur, must, top, target) ==
    AddUpTo(RankedMcpIn(top, must),
            AddUpTo(SetOrder(newly \cap cur), {}, target),
            target)

\* Mutant: the kept set is rebuilt from the ranking alone.
FilledKeeps_RankOnly(cur, must, top, t) == Range(Take(RankedMcpIn(top, cur), t))

\* Mutant: every ranked attached MCP tool is kept, whatever the free slots.
FilledKeeps_NoCap(cur, must, top, t) == must \cup Range(RankedMcpIn(top, cur \ must))

\* Mutant: without a library result every attached MCP tool is kept.
FilledKeeps_KeepAllUnranked(cur, must, top, t) ==
    IF top = <<>> THEN cur
    ELSE must \cup Range(Take(RankedMcpIn(top, cur \ must), t - Cardinality(must)))

\* Normal mode: fill the free slots with attached MCP tools in rank order.
FilledKeeps(cur, must, top, t) ==
    must \cup Range(Take(RankedMcpIn(top, cur \ must), t - Cardinality(must)))

FinalMcpToolIdsToKeep(newly, keep, cur, top, t) ==
    LET must == MustKeep(newly, keep, cur)
        n    == Cardinality(cur)
    IN  IF Cardinality(must) >= t
        THEN IF Cardinality(must) > AggressiveTarget(n)
             THEN PrioritizedKeeps(newly, cur, must, top, AggressiveTarget(n))
             ELSE must
        ELSE FilledKeeps(cur, must, top, t)

\* Mutant: every MCP tool on the agent is marked for detachment.
McpToolsToDetach_All(cur, keepSet) == cur

\* Step 5: mcp_tools_to_detach_ids
McpToolsToDetach(cur, keepSet) == cur \ keepSet

(***************************************************************************)
(* One mutation of a gather batch                                          *)
(***************************************************************************)

\* detach_tool: the dict it returns for the platform's answer. HTTP 200 and
\* 404 are successes; any other status, a timeout or an exception is not.
DetachStatus(r, id, att) ==
    IF r = "ok" THEN (IF id \in att THEN "200" ELSE "404")
    ELSE IF r = "error" THEN "500" ELSE "timeout"

\* Mutant: only HTTP 200 is a success.
detach_tool_Strict(id, status) ==
    [success |-> status = "200", tool_id |-> id, warning |-> status = "404"]

\* warning: the dict carries "Tool not found or already detached".
detach_tool(id, status) ==
    [success |-> status \in {"200", "404"}, tool_id |-> id, warning |-> status = "404"]

\* attach_tool: success only on HTTP 200. "conflict" is the platform's
\* answer 409 to the attachment of a tool the agent already has.
AttachStatus(r) ==
    IF r = "ok" THEN "200"
    ELSE IF r = "conflict" THEN "409"
    ELSE IF r = "error" THEN "500" ELSE "timeout"

attach_tool(id, status) == [success |-> status = "200", tool_id |-> id]

\* A task of the gather that has not returned yet.
Inflight == [inflight |-> TRUE, success |-> FALSE, tool_id |-> NoId]

BatchDone == \A i \in 1..Len(batchResp) : batchResp[i] # Inflight

\* Mutant: gather without return_exceptions, the first failure aborts it.
GatherResults_Abort ==
    IF \E i \in 1..Len(batchIds) : ~batchResp[i].success THEN <<>>
    ELSE [i \in 1..Len(batchIds) |-> batchResp[i]]

\* asyncio.gather(..., return_exceptions=True): one result per task, in
\* task order, each built from that task's own answer.
GatherResults == [i \in 1..Len(batchIds) |-> batchResp[i]]

SuccessIds(rs) ==
    LET sel == SelectSeq(rs, LAMBDA r : r.success)
    IN  [i \in 1..Len(sel) |-> sel[i].tool_id]

FailureIds(rs) ==
    LET sel == SelectSeq(rs, LAMBDA r : ~r.success)
    IN  [i \in 1..Len(sel) |-> sel[i].tool_id]

NoBatch == batchKind' = "none" /\ batchIds' = <<>> /\ batchResp' = <<>>

StartBatch(kind, ids) ==
    /\ batchKind' = kind
    /\ batchIds' = ids
    /\ batchResp' = [i \in 1..Len(ids) |-> Inflight]

\* One request of the batch in flight reaches the platform and returns.
RequestReturn(i, r) ==
    /\ batchKind # "none"
    /\ i \in 1..Len(batchIds)
    /\ batchResp[i] = Inflight
    /\ IF batchKind = "detach"
       THEN /\ batchResp' = [batchResp EXCEPT ![i] =
                                 detach_tool(batchIds[i], DetachStatus(r, batchIds[i], attached))]
            /\ attached' = IF r = "ok" THEN attached \ {batchIds[i]} ELSE attached
       ELSE /\ batchResp' = [batchResp EXCEPT ![i] = attach_tool(batchIds[i], AttachStatus(r))]
            /\ attached' = IF r = "ok" THEN attached \cup {batchIds[i]} ELSE attached
    /\ UNCHANGED <<ranking, hashOrder, reliable, pc, pruneArgs, pruneLocals,
                   batchKind, batchIds, pruning_result, attachVars>>

(***************************************************************************)
(* prune: POST /api/v1/tools/prune and _perform_tool_pruning              *)
(***************************************************************************)

\* The dict a call returns: which return statement produced it, and the
\* tool ids of its per-item outcomes.
Returned(ok, msg, det, fail) ==
    [state |-> "returned", success |-> ok, message |-> msg,
     detached |-> det, failed |-> fail]

NoResult == [state |-> "none", success |-> FALSE, message |-> "",
             detached |-> <<>>, failed |-> <<>>]

ResetPruneLocals ==
    /\ current_mcp_tool_ids' = {}
    /\ current_core_tool_ids' = {}
    /\ num_mcp_tools_to_keep' = 0
    /\ ordered_top_library_tool_info' = <<>>
    /\ final_mcp_tool_ids_to_keep' = {}
    /\ mcp_tools_to_detach_ids' = {}

\* Where _perform_tool_pruning returns to.
PruneReturnPc == IF pruneArgs.caller = "attach" THEN "attach_pruned" ELSE "done"

\* The endpoint: a validated request enters _perform_tool_pruning.
prune_tools(d, keep, newly) ==
    /\ pc = "idle"
    /\ pc' = "prune_fetch"
    /\ pruneArgs' = [caller |-> "endpoint", drop_rate |-> d,
                     keep_tool_ids |-> keep, newly_matched_tool_ids |-> newly]
    /\ ResetPruneLocals
    /\ pruning_result' = NoResult
    /\ NoBatch
    /\ UNCHANGED <<envVars, attachVars>>

\* Step 1 fails: fetch_agent_tools raises, the call returns success = false.
PruneFetchFails ==
    /\ pc = "prune_fetch"
    /\ pc' = PruneReturnPc
    /\ pruning_result' = Returned(FALSE, "error", <<>>, <<>>)
    /\ UNCHANGED <<envVars, pruneArgs, pruneLocals, batchVars, attachVars>>

\* Mutant: no early return, the library search starts even with no MCP tool.
PruneFetch_NoShortcut(dup, anon) ==
    /\ pc = "prune_fetch"
    /\ LET listing == AgentToolsListing(attached, dup, anon)
           cur     == McpToolsOnAgent(listing)
       IN  /\ current_mcp_tool_ids' = cur
           /\ current_core_tool_ids' = CoreToolsOnAgent(listing)
           /\ pc' = "prune_search"
           /\ num_mcp_tools_to_keep' =
                  Max(0, NumMcpToolsToKeep(Cardinality(cur), pruneArgs.drop_rate))
           /\ UNCHANGED pruning_result
    /\ UNCHANGED <<envVars, pruneArgs, ordered_top_library_tool_info,
                   final_mcp_tool_ids_to_keep, mcp_tools_to_detach_ids, batchVars,
                   attachVars>>

\* Steps 1-2: the agent's tools are fetched and partitioned; with no MCP
\* tool the call returns at once, otherwise the library search starts.
PruneFetch(dup, anon) ==
    /\ pc = "prune_fetch"
    /\ LET listing == AgentToolsListing(attached, dup, anon)
           cur     == McpToolsOnAgent(listing)
       IN  /\ current_mcp_tool_ids' = cur
           /\ current_core_tool_ids' = CoreToolsOnAgent(listing)
           /\ IF Cardinality(cur) = 0
              THEN /\ pc' = PruneReturnPc
                   /\ num_mcp_tools_to_keep' = 0
                   /\ pruning_result' = Returned(TRUE, "No MCP tools to prune", <<>>, <<>>)
              ELSE /\ pc' = "prune_search"
                   /\ num_mcp_tools_to_keep' =
                          Max(0, NumMcpToolsToKeep(Cardinality(cur), pruneArgs.drop_rate))
                   /\ UNCHANGED pruning_result
    /\ UNCHANGED <<envVars, pruneArgs, ordered_top_library_tool_info,
                   final_mcp_tool_ids_to_keep, mcp_tools_to_detach_ids, batchVars,
                   attachVars>>

\* Steps 3-6: the library search returns, the kept set and the detach set
\* are decided and every detach request of the batch is issued.
PruneDecide(up) ==
    /\ pc = "prune_search"
    /\ LET top     == OrderedTopLibraryToolInfo(
                          search_tools(up, SearchLimit(num_mcp_tools_to_keep)))
           keepSet == FinalMcpToolIdsToKeep(pruneArgs.newly_matched_tool_ids,
                                            pruneArgs.keep_tool_ids,
                                            current_mcp_tool_ids, top,
                                            num_mcp_tools_to_keep)
           det     == McpToolsToDetach(current_mcp_tool_ids, keepSet)
       IN  /\ ordered_top_library_tool_info' = top
           /\ final_mcp_tool_ids_to_keep' = keepSet
           /\ mcp_tools_to_detach_ids' = det
           /\ StartBatch("detach", SetOrder(det))
    /\ pc' = "prune_detach"
    /\ UNCHANGED <<envVars, pruneArgs, current_mcp_tool_ids, current_core_tool_ids,
                   num_mcp_tools_to_keep, pruning_result, attachVars>>

\* Mutant: the call fails when a detach request of its batch failed.
PruneCollect_AllOrNothing ==
    /\ pc = "prune_detach"
    /\ BatchDone
    /\ pruning_result' = Returned(FailureIds(GatherResults) = <<>>, "Pruning completed",
                                   SuccessIds(GatherResults), FailureIds(GatherResults))
    /\ pc' = PruneReturnPc
    /\ UNCHANGED <<envVars, pruneArgs, pruneLocals, batchVars, attachVars>>

\* Steps 6-7: every detach request has returned; the outcomes are sorted
\* into successes and failures and the call returns success = true.
PruneCollect ==
    /\ pc = "prune_detach"
    /\ BatchDone
    /\ pruning_result' = Returned(TRUE, "Pruning completed",
                                   SuccessIds(GatherResults), FailureIds(GatherResults))
    /\ pc' = PruneReturnPc
    /\ UNCHANGED <<envVars, pruneArgs, pruneLocals, batchVars, attachVars>>

(***************************************************************************)
(* Specification of prune calls through the endpoint                       *)
(***************************************************************************)

\* The agent always carries its core tool; any MCP tools may be attached.
InitEnv ==
    /\ attached \in {CoreIds \cup S : S \in SUBSET McpIds}
    /\ ranking \in Rankings
    /\ hashOrder \in HashOrders

NoResults == [detached_tools |-> <<>>, failed_detachments |-> <<>>,
              successful_attachments |-> <<>>, failed_attachments |-> <<>>]

InitEngine ==
    /\ pc = "idle"
    /\ attachArgs = [query |-> "", limit |-> 0, keep_tools |-> {}]
    /\ mcp_tools = <<>>
    /\ matching_tools_from_search = <<>>
    /\ processed_tools = <<>>
    /\ results = NoResults
    /\ attach_response = NoResult
    /\ callNo = 0
    /\ firstAttached = {}

InitPruneLocals ==
    /\ pruneArgs = [caller |-> "endpoint", drop_rate |-> 0,
                    keep_tool_ids |-> {}, newly_matched_tool_ids |-> {}]
    /\ current_mcp_tool_ids = {}
    /\ current_core_tool_ids = {}
    /\ num_mcp_tools_to_keep = 0
    /\ ordered_top_library_tool_info = <<>>
    /\ final_mcp_tool_ids_to_keep = {}
    /\ mcp_tools_to_detach_ids = {}
    /\ batchKind = "none"
    /\ batchIds = <<>>
    /\ batchResp = <<>>
    /\ pruning_result = NoResult

InitPrune == InitEnv /\ reliable = FALSE /\ InitEngine /\ InitPruneLocals /\ InitCacheIdle /\ InitSyncIdle /\ InitFacadeIdle /\ InitFetchIdle

NextPrune ==
    \/ \E d \in DropRates, keep \in KeepChoices, newly \in NewlyChoices :
           prune_tools(d, keep, newly) /\ UNCHANGED <<cacheVars, syncVars, facadeVars, fetchVars>>
    \/ PruneFetchFails /\ UNCHANGED <<cacheVars, syncVars, facadeVars, fetchVars>>
    \/ \E dup \in BOOLEAN, anon \in BOOLEAN : PruneFetch(dup, anon) /\ UNCHANGED <<cacheVars, syncVars, facadeVars, fetchVars>>
    \/ \E up \in StoreUp(reliable) : PruneDecide(up) /\ UNCHANGED <<cacheVars, syncVars, facadeVars, fetchVars>>
    \/ \E i \in 1..Cardinality(McpIds), r \in Answers(reliable) : RequestReturn(i, r) /\ UNCHANGED <<cacheVars, syncVars, facadeVars, fetchVars>>
    \/ PruneCollect /\ UNCHANGED <<cacheVars, syncVars, facadeVars, fetchVars>>

SpecPrune == InitPrune /\ [][NextPrune]_vars

(***************************************************************************)
(* Prune calls on agents with ten and with five MCP tools                  *)
(***************************************************************************)

\* The store objects a ranking lists for the ids, best first.
Ranked(ids) ==
    [i \in 1..Len(ids) |->
        [id |-> ids[i], tool_type |-> ToolType(ids[i]),
         mcp_server_name |-> IF ToolType(ids[i]) = "external_mcp" THEN "s1" ELSE NoServer]]

\* What the library search returns: seven tools all attached; a core tool
\* and an unattached MCP tool among five attached ones; three attached
\* tools only; nothing.
LargeRankings ==
    {Ranked(<<"t1", "t2", "t3", "t4", "t5", "t6", "t7">>),
     Ranked(<<"t9", "c1", "m1", "t2", "t7", "t5", "t1">>),
     Ranked(<<"t2", "t5", "t9">>),
     <<>>}

LargeHashOrders ==
    {<<"c1", "t1", "t2", "t3", "t4", "t5", "t6", "t7", "t8", "t9", "t10">>,
     <<"t10", "t9", "t8", "t7", "t6", "t5", "t4", "t3", "t2", "t1", "c1">>}

\* drop_rate 0.6 and 0.1, in tenths.
LargeDropRates == {6, 1}

LargeKeepChoices == {{}, FiveIds}

\* No remote call fails in these behaviours.
InitPruneLarge ==
    /\ attached \in {CoreIds \cup TenIds, CoreIds \cup FiveIds}
    /\ ranking \in LargeRankings
    /\ hashOrder \in LargeHashOrders
    /\ reliable = TRUE
    /\ InitEngine /\ InitPruneLocals /\ InitCacheIdle /\ InitSyncIdle /\ InitFacadeIdle /\ InitFetchIdle

NextPruneLarge ==
    \/ \E d \in LargeDropRates, keep \in LargeKeepChoices :
           prune_tools(d, keep, {}) /\ UNCHANGED <<cacheVars, syncVars, facadeVars, fetchVars>>
    \/ \E dup \in BOOLEAN, anon \in BOOLEAN : PruneFetch(dup, anon) /\ UNCHANGED <<cacheVars, syncVars, facadeVars, fetchVars>>
    \/ \E up \in StoreUp(reliable) : PruneDecide(up) /\ UNCHANGED <<cacheVars, syncVars, facadeVars, fetchVars>>
    \/ \E i \in 1..Cardinality(TenIds), r \in Answers(reliable) :
           RequestReturn(i, r) /\ UNCHANGED <<cacheVars, syncVars, facadeVars, fetchVars>>
    \/ PruneCollect /\ UNCHANGED <<cacheVars, syncVars, facadeVars, fetchVars>>

SpecPruneLarge == InitPruneLarge /\ [][NextPruneLarge]_vars

(***************************************************************************)
(* Prune calls on an agent another client of the platform also changes     *)
(***************************************************************************)

\* Another client of the Agent Platform detaches an MCP tool of the agent.
OtherClientDetaches(id) ==
    /\ id \in attached \cap McpIds
    /\ attached' = attached \ {id}
    /\ UNCHANGED <<ranking, hashOrder, reliable, pc, pruneArgs, pruneLocals,
                   batchVars, pruning_result, attachVars>>

InitPruneShared ==
    InitEnv /\ reliable \in BOOLEAN /\ InitEngine /\ InitPruneLocals /\ InitCacheIdle /\ InitSyncIdle /\ InitFacadeIdle /\ InitFetchIdle

NextPruneShared ==
    \/ \E d \in DropRates : prune_tools(d, {}, {}) /\ UNCHANGED <<cacheVars, syncVars, facadeVars, fetchVars>>
    \/ PruneFetchFails /\ UNCHANGED <<cacheVars, syncVars, facadeVars, fetchVars>>
    \/ \E dup \in BOOLEAN, anon \in BOOLEAN : PruneFetch(dup, anon) /\ UNCHANGED <<cacheVars, syncVars, facadeVars, fetchVars>>
    \/ \E up \in StoreUp(reliable) : PruneDecide(up) /\ UNCHANGED <<cacheVars, syncVars, facadeVars, fetchVars>>
    \/ \E i \in 1..Cardinality(McpIds), r \in Answers(reliable) :
           RequestReturn(i, r) /\ UNCHANGED <<cacheVars, syncVars, facadeVars, fetchVars>>
    \/ PruneCollect /\ UNCHANGED <<cacheVars, syncVars, facadeVars, fetchVars>>
    \/ \E id \in McpIds : OtherClientDetaches(id) /\ UNCHANGED <<cacheVars, syncVars, facadeVars, fetchVars>>

SpecPruneShared == InitPruneShared /\ [][NextPruneShared]_vars


(***************************************************************************)
(* attach: POST /api/v1/tools/attach, process_matching_tool, process_tools *)
(***************************************************************************)

\* Step 2 of attach_tools: the listed external_mcp tools with an id, first
\* occurrence of each id, in listing order.
RECURSIVE DedupMcp(_, _)
DedupMcp(listing, seen) ==
    IF listing = <<>> THEN <<>>
    ELSE LET t == Head(listing)
         IN  IF t.tool_type = "external_mcp" /\ t.id # NoId /\ t.id \notin seen
             THEN <<t.id>> \o DedupMcp(Tail(listing), seen \cup {t.id})
             ELSE DedupMcp(Tail(listing), seen)

UniqueMcpTools(listing) == DedupMcp(listing, {})

\* Mutant: every hit is a candidate, registered or not.
process_matching_tool_Unchecked(hit, regOk) == <<hit.id>>

\* process_matching_tool: a search hit is resolved by name through the
\* catalog cache; without an id there it is registered through its MCP
\* server (regOk: the registration call succeeds), or dropped.
process_matching_tool(hit, regOk) ==
    IF hit.id \in Catalog THEN <<hit.id>>
    ELSE IF hit.mcp_server_name # NoServer
         THEN (IF regOk THEN <<hit.id>> ELSE <<>>)
         ELSE <<>>

\* Step 4 of attach_tools: the candidates that resolved, in hit order.
RECURSIVE ProcessedTools(_, _)
ProcessedTools(hits, regs) ==
    IF hits = <<>> THEN <<>>
    ELSE process_matching_tool(Head(hits), Head(regs))
             \o ProcessedTools(Tail(hits), Tail(regs))

\* process_tools: ids never to detach here, keep_tools and the candidates.
KeepToolIds(keep_tools, matching) == {k \in keep_tools : k # NoId} \cup Range(matching)

\* Mutant: the ids listed in keep_tools are forgotten.
ToolsToDetach_NoKeep(mcp, keep_tools, matching) ==
    SelectSeq(mcp, LAMBDA t : t # NoId /\ t \notin Range(matching))

\* process_tools: the agent's MCP tools outside the keep set, in list order.
ToolsToDetach(mcp, keep_tools, matching) ==
    SelectSeq(mcp, LAMBDA t : t # NoId /\ t \notin KeepToolIds(keep_tools, matching))

\* The endpoint returns: the first call of a request records what it left.
AttachRespond(resp) ==
    /\ pc' = "done"
    /\ attach_response' = resp
    /\ firstAttached' = IF callNo = 1 THEN attached ELSE firstAttached

\* A request with an agent_id enters attach_tools.
attach_tools(q, lim, keep) ==
    /\ pc = "idle"
    /\ pc' = "attach_fetch"
    /\ attachArgs' = [query |-> q, limit |-> lim, keep_tools |-> keep]
    /\ callNo' = 1
    /\ UNCHANGED <<envVars, pruneArgs, pruneLocals, batchVars, pruning_result,
                   mcp_tools, matching_tools_from_search, processed_tools,
                   results, attach_response, firstAttached>>

\* The client sends the same request again after the first has returned.
AttachAgain ==
    /\ pc = "done"
    /\ callNo = 1
    /\ attach_response.success
    /\ pc' = "attach_fetch"
    /\ callNo' = 2
    /\ mcp_tools' = <<>>
    /\ matching_tools_from_search' = <<>>
    /\ processed_tools' = <<>>
    /\ results' = NoResults
    /\ attach_response' = NoResult
    /\ pruning_result' = NoResult
    /\ ResetPruneLocals
    /\ NoBatch
    /\ UNCHANGED <<envVars, pruneArgs, attachArgs, firstAttached>>

\* Step 1 fails: fetching the agent or its tools raises, HTTP 500.
AttachFetchFails ==
    /\ pc = "attach_fetch"
    /\ AttachRespond(Returned(FALSE, "error", <<>>, <<>>))
    /\ UNCHANGED <<envVars, pruneArgs, pruneLocals, batchVars, pruning_result,
                   attachArgs, mcp_tools, matching_tools_from_search,
                   processed_tools, results, callNo>>

\* Steps 1-2: agent info and tools are fetched, the MCP tools deduplicated.
AttachFetch(dup, anon) ==
    /\ pc = "attach_fetch"
    /\ mcp_tools' = UniqueMcpTools(AgentToolsListing(attached, dup, anon))
    /\ pc' = "attach_search"
    /\ UNCHANGED <<envVars, pruneArgs, pruneLocals, batchVars, pruning_result,
                   attachArgs, matching_tools_from_search, processed_tools,
                   results, attach_response, callNo, firstAttached>>

\* Step 3: the Vector Store search for the query returns.
AttachSearch(up) ==
    /\ pc = "attach_search"
    /\ matching_tools_from_search' = search_tools(up, attachArgs.limit)
    /\ pc' = "attach_resolve"
    /\ UNCHANGED <<envVars, pruneArgs, pruneLocals, batchVars, pruning_result,
                   attachArgs, mcp_tools, processed_tools, results,
                   attach_response, callNo, firstAttached>>

\* Step 4 and the start of process_tools: the candidates are resolved, the
\* detach set is computed and every detach request is issued.
AttachResolve(regs) ==
    /\ pc = "attach_resolve"
    /\ LET R == ProcessedTools(matching_tools_from_search, regs)
       IN  /\ processed_tools' = R
           /\ StartBatch("detach", ToolsToDetach(mcp_tools, attachArgs.keep_tools, R))
    /\ pc' = "attach_detach"
    /\ UNCHANGED <<envVars, pruneArgs, pruneLocals, pruning_result, attachArgs,
                   mcp_tools, matching_tools_from_search, results,
                   attach_response, callNo, firstAttached>>

\* Mutant: the attach batch does not wait for the detach batch.
DetachGathered_NoWait == TRUE

\* await asyncio.gather(*detach_tasks): every detach request has returned.
DetachGathered == BatchDone

\* await asyncio.gather(*attach_tasks): every attach request has returned.
AttachGathered == BatchDone

\* process_tools, second half: the detach outcomes are collected and every
\* attach request is issued.
AttachIssueAttach ==
    /\ pc = "attach_detach"
    /\ DetachGathered
    /\ results' = [results EXCEPT
                      !.detached_tools = SuccessIds(GatherResults),
                      !.failed_detachments = FailureIds(GatherResults)]
    /\ StartBatch("attach", processed_tools)
    /\ pc' = "attach_attach"
    /\ UNCHANGED <<envVars, pruneArgs, pruneLocals, pruning_result, attachArgs,
                   mcp_tools, matching_tools_from_search, processed_tools,
                   attach_response, callNo, firstAttached>>

\* Mutant: the prune is chained whenever a candidate was resolved.
ChainsPrune_Resolved(query, ok, R) == query # "" /\ R # <<>>

\* `if query and results.get("successful_attachments")`
ChainsPrune(query, ok, R) == query # "" /\ ok # <<>>

\* process_tools returns; attach_tools chains the prune when the query is
\* not empty and an attachment succeeded, and responds otherwise.
AttachCollect ==
    /\ pc = "attach_attach"
    /\ AttachGathered
    /\ LET ok   == SuccessIds(GatherResults)
           fail == FailureIds(GatherResults)
       IN  /\ results' = [results EXCEPT !.successful_attachments = ok,
                                         !.failed_attachments = fail]
           /\ IF ChainsPrune(attachArgs.query, ok, processed_tools)
              THEN /\ pc' = "prune_fetch"
                   /\ pruneArgs' = [caller |-> "attach",
                                    drop_rate |-> DEFAULT_DROP_RATE,
                                    keep_tool_ids |-> attachArgs.keep_tools,
                                    newly_matched_tool_ids |-> Range(ok)]
                   /\ ResetPruneLocals
                   /\ UNCHANGED <<attach_response, firstAttached>>
              ELSE /\ AttachRespond(Returned(TRUE, "Successfully processed",
                                             results.detached_tools,
                                             results.failed_detachments))
                   /\ UNCHANGED <<pruneArgs, pruneLocals>>
    /\ UNCHANGED <<envVars, batchVars, pruning_result, attachArgs, mcp_tools,
                   matching_tools_from_search, processed_tools, callNo>>

\* Mutant: the response takes its success from the chained prune.
AttachAfterPrune_PruneDecides ==
    /\ pc = "attach_pruned"
    /\ AttachRespond(Returned(pruning_result.success, "Successfully processed",
                              results.detached_tools, results.failed_detachments))
    /\ UNCHANGED <<envVars, pruneArgs, pruneLocals, batchVars, pruning_result,
                   attachArgs, mcp_tools, matching_tools_from_search,
                   processed_tools, results, callNo>>

\* The chained prune has returned (with success or not): HTTP 200.
AttachAfterPrune ==
    /\ pc = "attach_pruned"
    /\ AttachRespond(Returned(TRUE, "Successfully processed",
                              results.detached_tools, results.failed_detachments))
    /\ UNCHANGED <<envVars, pruneArgs, pruneLocals, batchVars, pruning_result,
                   attachArgs, mcp_tools, matching_tools_from_search,
                   processed_tools, results, callNo>>

RegOutcomes(rel) ==
    [1..Len(matching_tools_from_search) -> IF rel THEN {TRUE} ELSE BOOLEAN]

\* One attach call against a platform and Vector Store that may fail.
InitAttach == InitEnv /\ reliable = FALSE /\ InitEngine /\ InitPruneLocals /\ InitCacheIdle /\ InitSyncIdle /\ InitFacadeIdle /\ InitFetchIdle

NextAttach ==
    \/ \E q \in Queries, lim \in Limits, keep \in KeepTools : attach_tools(q, lim, keep) /\ UNCHANGED <<cacheVars, syncVars, facadeVars, fetchVars>>
    \/ AttachFetchFails /\ UNCHANGED <<cacheVars, syncVars, facadeVars, fetchVars>>
    \/ \E dup \in BOOLEAN, anon \in BOOLEAN : AttachFetch(dup, anon) /\ UNCHANGED <<cacheVars, syncVars, facadeVars, fetchVars>>
    \/ \E up \in StoreUp(reliable) : AttachSearch(up) /\ UNCHANGED <<cacheVars, syncVars, facadeVars, fetchVars>>
    \/ \E regs \in RegOutcomes(reliable) : AttachResolve(regs) /\ UNCHANGED <<cacheVars, syncVars, facadeVars, fetchVars>>
    \/ \E i \in 1..Max(Cardinality(McpIds), MaxLib), r \in Answers(reliable) :
           RequestReturn(i, r) /\ UNCHANGED <<cacheVars, syncVars, facadeVars, fetchVars>>
    \/ AttachIssueAttach /\ UNCHANGED <<cacheVars, syncVars, facadeVars, fetchVars>>
    \/ AttachCollect /\ UNCHANGED <<cacheVars, syncVars, facadeVars, fetchVars>>
    \/ PruneFetchFails /\ UNCHANGED <<cacheVars, syncVars, facadeVars, fetchVars>>
    \/ \E dup \in BOOLEAN, anon \in BOOLEAN : PruneFetch(dup, anon) /\ UNCHANGED <<cacheVars, syncVars, facadeVars, fetchVars>>
    \/ \E up \in StoreUp(reliable) : PruneDecide(up) /\ UNCHANGED <<cacheVars, syncVars, facadeVars, fetchVars>>
    \/ PruneCollect /\ UNCHANGED <<cacheVars, syncVars, facadeVars, fetchVars>>
    \/ AttachAfterPrune /\ UNCHANGED <<cacheVars, syncVars, facadeVars, fetchVars>>

SpecAttach == InitAttach /\ [][NextAttach]_vars

\* One attach call that asks to keep nothing or m1 and m2, against an
\* environment that is either free of failures or not.
OnceKeepTools == {{}, {"m1", "m2"}}

InitAttachOnce ==
    InitEnv /\ reliable \in BOOLEAN /\ InitEngine /\ InitPruneLocals /\ InitCacheIdle /\ InitSyncIdle /\ InitFacadeIdle /\ InitFetchIdle

NextAttachOnce ==
    \/ \E q \in Queries, lim \in Limits, keep \in OnceKeepTools :
           attach_tools(q, lim, keep) /\ UNCHANGED <<cacheVars, syncVars, facadeVars, fetchVars>>
    \/ AttachFetchFails /\ UNCHANGED <<cacheVars, syncVars, facadeVars, fetchVars>>
    \/ \E dup \in BOOLEAN, anon \in BOOLEAN : AttachFetch(dup, anon) /\ UNCHANGED <<cacheVars, syncVars, facadeVars, fetchVars>>
    \/ \E up \in StoreUp(reliable) : AttachSearch(up) /\ UNCHANGED <<cacheVars, syncVars, facadeVars, fetchVars>>
    \/ \E regs \in RegOutcomes(reliable) : AttachResolve(regs) /\ UNCHANGED <<cacheVars, syncVars, facadeVars, fetchVars>>
    \/ \E i \in 1..Max(Cardinality(McpIds), MaxLib), r \in Answers(reliable) :
           RequestReturn(i, r) /\ UNCHANGED <<cacheVars, syncVars, facadeVars, fetchVars>>
    \/ AttachIssueAttach /\ UNCHANGED <<cacheVars, syncVars, facadeVars, fetchVars>>
    \/ AttachCollect /\ UNCHANGED <<cacheVars, syncVars, facadeVars, fetchVars>>
    \/ PruneFetchFails /\ UNCHANGED <<cacheVars, syncVars, facadeVars, fetchVars>>
    \/ \E dup \in BOOLEAN, anon \in BOOLEAN : PruneFetch(dup, anon) /\ UNCHANGED <<cacheVars, syncVars, facadeVars, fetchVars>>
    \/ \E up \in StoreUp(reliable) : PruneDecide(up) /\ UNCHANGED <<cacheVars, syncVars, facadeVars, fetchVars>>
    \/ PruneCollect /\ UNCHANGED <<cacheVars, syncVars, facadeVars, fetchVars>>
    \/ AttachAfterPrune /\ UNCHANGED <<cacheVars, syncVars, facadeVars, fetchVars>>

SpecAttachOnce == InitAttachOnce /\ [][NextAttachOnce]_vars

\* The same attach request sent twice while every remote call succeeds.
\* A platform that never fails and answers Conflict to the attachment of a
\* tool that is already attached to the agent.
ConflictAnswers(i) ==
    IF batchKind = "attach" /\ i \in 1..Len(batchIds) /\ batchIds[i] \in attached
    THEN {"conflict"} ELSE {"ok"}

InitAttachConflict ==
    InitEnv /\ reliable = TRUE /\ InitEngine /\ InitPruneLocals /\ InitCacheIdle /\ InitSyncIdle /\ InitFacadeIdle /\ InitFetchIdle

NextAttachConflict ==
    \/ \E q \in Queries, lim \in Limits, keep \in OnceKeepTools :
           attach_tools(q, lim, keep) /\ UNCHANGED <<cacheVars, syncVars, facadeVars, fetchVars>>
    \/ \E dup \in BOOLEAN, anon \in BOOLEAN : AttachFetch(dup, anon) /\ UNCHANGED <<cacheVars, syncVars, facadeVars, fetchVars>>
    \/ \E up \in StoreUp(reliable) : AttachSearch(up) /\ UNCHANGED <<cacheVars, syncVars, facadeVars, fetchVars>>
    \/ \E regs \in RegOutcomes(reliable) : AttachResolve(regs) /\ UNCHANGED <<cacheVars, syncVars, facadeVars, fetchVars>>
    \/ \E i \in 1..Max(Cardinality(McpIds), MaxLib) : \E r \in ConflictAnswers(i) :
           RequestReturn(i, r) /\ UNCHANGED <<cacheVars, syncVars, facadeVars, fetchVars>>
    \/ AttachIssueAttach /\ UNCHANGED <<cacheVars, syncVars, facadeVars, fetchVars>>
    \/ AttachCollect /\ UNCHANGED <<cacheVars, syncVars, facadeVars, fetchVars>>
    \/ \E dup \in BOOLEAN, anon \in BOOLEAN : PruneFetch(dup, anon) /\ UNCHANGED <<cacheVars, syncVars, facadeVars, fetchVars>>
    \/ \E up \in StoreUp(reliable) : PruneDecide(up) /\ UNCHANGED <<cacheVars, syncVars, facadeVars, fetchVars>>
    \/ PruneCollect /\ UNCHANGED <<cacheVars, syncVars, facadeVars, fetchVars>>
    \/ AttachAfterPrune /\ UNCHANGED <<cacheVars, syncVars, facadeVars, fetchVars>>

SpecAttachConflict == InitAttachConflict /\ [][NextAttachConflict]_vars

InitAttachTwice == InitEnv /\ reliable = TRUE /\ InitEngine /\ InitPruneLocals /\ InitCacheIdle /\ InitSyncIdle /\ InitFacadeIdle /\ InitFetchIdle

NextAttachTwice ==
    \/ \E q \in Queries, lim \in Limits, keep \in KeepTools : attach_tools(q, lim, keep) /\ UNCHANGED <<cacheVars, syncVars, facadeVars, fetchVars>>
    \/ \E dup \in BOOLEAN, anon \in BOOLEAN : AttachFetch(dup, anon) /\ UNCHANGED <<cacheVars, syncVars, facadeVars, fetchVars>>
    \/ \E up \in StoreUp(reliable) : AttachSearch(up) /\ UNCHANGED <<cacheVars, syncVars, facadeVars, fetchVars>>
    \/ \E regs \in RegOutcomes(reliable) : AttachResolve(regs) /\ UNCHANGED <<cacheVars, syncVars, facadeVars, fetchVars>>
    \/ \E i \in 1..Max(Cardinality(McpIds), MaxLib), r \in Answers(reliable) :
           RequestReturn(i, r) /\ UNCHANGED <<cacheVars, syncVars, facadeVars, fetchVars>>
    \/ AttachIssueAttach /\ UNCHANGED <<cacheVars, syncVars, facadeVars, fetchVars>>
    \/ AttachCollect /\ UNCHANGED <<cacheVars, syncVars, facadeVars, fetchVars>>
    \/ \E dup \in BOOLEAN, anon \in BOOLEAN : PruneFetch(dup, anon) /\ UNCHANGED <<cacheVars, syncVars, facadeVars, fetchVars>>
    \/ \E up \in StoreUp(reliable) : PruneDecide(up) /\ UNCHANGED <<cacheVars, syncVars, facadeVars, fetchVars>>
    \/ PruneCollect /\ UNCHANGED <<cacheVars, syncVars, facadeVars, fetchVars>>
    \/ AttachAfterPrune /\ UNCHANGED <<cacheVars, syncVars, facadeVars, fetchVars>>
    \/ AttachAgain /\ UNCHANGED <<cacheVars, syncVars, facadeVars, fetchVars>>

SpecAttachTwice == InitAttachTwice /\ [][NextAttachTwice]_vars


\* The cache alone: the file is missing, malformed or holds a list.
InitCache ==
    /\ attached = CoreIds /\ ranking = <<>> /\ hashOrder = PlatformOrder
    /\ reliable = TRUE /\ InitEngine /\ InitPruneLocals
    /\ InitMirror /\ InitSyncIdle /\ InitFacadeIdle /\ InitFetchIdle
    /\ S_old \in ToolLists \cup {None}
    /\ cache_file \in
          IF S_old = None
          THEN {NoFile, [exists |-> TRUE, content |-> <<"[", "t1">>, mtime |-> 1]}
          ELSE {[exists |-> TRUE, content |-> dumps(S_old), mtime |-> 1]}

NextCache ==
    \/ \E r \in Readers, force_reload \in BOOLEAN :
           read_tool_cache(r, force_reload) /\ UNCHANGED <<engineVars, syncVars, facadeVars, fetchVars>>
    \/ \E r \in Readers, io \in IoOutcomes : ReadContent(r, io) /\ UNCHANGED <<engineVars, syncVars, facadeVars, fetchVars>>
    \/ \E r \in Readers : ReadParse(r) /\ UNCHANGED <<engineVars, syncVars, facadeVars, fetchVars>>
    \/ \E r \in Readers : ReadReturn(r) /\ UNCHANGED <<engineVars, syncVars, facadeVars, fetchVars>>
    \/ \E tools_data \in ToolLists : write_tool_cache(tools_data) /\ UNCHANGED <<engineVars, syncVars, facadeVars, fetchVars>>
    \/ \E k \in 0..Len(dumps(writer.data)) : WriteData(k) /\ UNCHANGED <<engineVars, syncVars, facadeVars, fetchVars>>
    \/ WriteClose /\ UNCHANGED <<engineVars, syncVars, facadeVars, fetchVars>>

SpecCache == InitCache /\ [][NextCache]_vars


(***************************************************************************)
(* POST /api/v1/tools/prune and /attach: the handlers around the engine    *)
(***************************************************************************)
\* JSON values a body may carry as drop_rate: no key or null, a string, a
\* boolean (value 1 for true) and numbers in tenths (-0.1 ... 1.1).
DropRateFields ==
    {[type |-> "absent", value |-> 0], [type |-> "string", value |-> 0],
     [type |-> "boolean", value |-> 0], [type |-> "boolean", value |-> 1]}
        \cup {[type |-> "number", value |-> v] : v \in {-1, 0, 5, 10, 11}}

\* An optional list of ids: the key may be missing.
NoList == [present |-> FALSE, ids |-> {}]

KeepFields == {NoList, [present |-> TRUE, ids |-> {"m1"}]}

NewlyFields == {NoList, [present |-> TRUE, ids |-> {"m3"}]}

PruneBodies ==
    [route : {"prune"}, agent_id : {Absent, "a1"}, user_prompt : {Absent, "", "q"},
     drop_rate : DropRateFields, keep_tool_ids : KeepFields,
     newly_matched_tool_ids : NewlyFields]

AttachBodies ==
    [route : {"attach"}, agent_id : {Absent, "a1"}, query : {Absent, "q"},
     limit : {Absent}, keep_tools : {NoList, [present |-> TRUE, ids |-> {"m1", "m2"}]}]

\* `not value` for a string key of the body.
Falsy(v) == v \in {Absent, ""}

\* isinstance(drop_rate, (int, float)): a JSON number, or a JSON boolean,
\* bool being a subclass of int.
IsIntOrFloat(dr) == dr.type \in {"number", "boolean"}

\* The number Python computes with, in tenths: True is 1 and False is 0.
AsTenths(dr) == IF dr.type = "boolean" THEN 10 * dr.value ELSE dr.value

\* `not data`: the body is missing or is the empty object.
EmptyPruneBody(b) ==
    /\ b.agent_id = Absent /\ b.user_prompt = Absent /\ b.drop_rate.type = "absent"
    /\ ~b.keep_tool_ids.present /\ ~b.newly_matched_tool_ids.present

EmptyAttachBody(b) ==
    b.agent_id = Absent /\ b.query = Absent /\ b.limit = Absent /\ ~b.keep_tools.present

\* The validation of prune_tools: the error of the first failing test, or
\* "" when the request is accepted.
PruneRequestError(b) ==
    IF EmptyPruneBody(b) THEN "Request body must be JSON"
    ELSE IF Falsy(b.agent_id) THEN "agent_id is required"
    ELSE IF Falsy(b.user_prompt) THEN "user_prompt is required"
    ELSE IF b.drop_rate.type = "absent" THEN "drop_rate must be a number between 0 and 1"
    ELSE IF ~IsIntOrFloat(b.drop_rate) THEN "drop_rate must be a number between 0 and 1"
    ELSE IF ~(0 <= AsTenths(b.drop_rate) /\ AsTenths(b.drop_rate) <= 10)
         THEN "drop_rate must be a number between 0 and 1"
    ELSE ""

\* The validation of attach_tools.
AttachRequestError(b) ==
    IF EmptyAttachBody(b) THEN "Request body must be JSON"
    ELSE IF Falsy(b.agent_id) THEN "agent_id is required"
    ELSE ""

BadRequest(route, err) ==
    [route |-> route, code |-> 400, status |-> "", error |-> err, details |-> NoDetails]

\* HTTP status of a prune or attach call that ran: 200 on success, else 500.
HttpStatus(result) == IF result.success THEN 200 ELSE 500

\* POST /api/v1/tools/prune: validation, then _perform_tool_pruning.
prune_endpoint(b) ==
    /\ pc = "idle"
    /\ request_body' = b
    /\ init_attempts' = 0
    /\ IF PruneRequestError(b) # ""
       THEN /\ http_response' = BadRequest("prune", PruneRequestError(b))
            /\ UNCHANGED engineVars
       ELSE /\ http_response' = NoResponse
            /\ prune_tools(AsTenths(b.drop_rate), b.keep_tool_ids.ids,
                           b.newly_matched_tool_ids.ids)
    /\ UNCHANGED <<weaviate_client, mcp_servers_cache_file, _tool_cache_keys,
                   cache_file_keys>>

\* POST /api/v1/tools/attach: validation, then the attach steps; a missing
\* query is '' and a missing limit is 10.
attach_endpoint(b) ==
    /\ pc = "idle"
    /\ request_body' = b
    /\ init_attempts' = 0
    /\ IF AttachRequestError(b) # ""
       THEN /\ http_response' = BadRequest("attach", AttachRequestError(b))
            /\ UNCHANGED engineVars
       ELSE /\ http_response' = NoResponse
            /\ attach_tools(IF b.query = Absent THEN "" ELSE b.query,
                            IF b.limit = Absent THEN 10 ELSE b.limit,
                            b.keep_tools.ids)
    /\ UNCHANGED <<weaviate_client, mcp_servers_cache_file, _tool_cache_keys,
                   cache_file_keys>>

\* What init_weaviate_client may return: None or a client, ready or not.
InitClientOutcomes == {"none", "not_ready", "ready"}

\* Mutant: the handle is initialised again until it is ready or a second
\* attempt has failed too.
ReinitAttempts_Twice(client, outcome) ==
    IF client = "ready" THEN 0 ELSE IF outcome = "ready" THEN 1 ELSE 2

\* init_weaviate_client calls of one attach request: none with a ready
\* handle, one otherwise.
ReinitAttempts(client, outcome) == IF client = "ready" THEN 0 ELSE 1

\* Steps 1-3a of attach_tools with the handle check: the agent's tools are
\* fetched and deduplicated; a handle that is missing or not ready is
\* initialised again once, and without a ready handle the request is
\* answered 500 before any search.
AttachFetchChecked(dup, anon, outcome) ==
    /\ pc = "attach_fetch"
    /\ init_attempts' = init_attempts + ReinitAttempts(weaviate_client, outcome)
    /\ weaviate_client' = IF weaviate_client = "ready" THEN weaviate_client ELSE outcome
    /\ IF weaviate_client' = "ready"
       THEN /\ AttachFetch(dup, anon)
            /\ UNCHANGED http_response
       ELSE /\ mcp_tools' = UniqueMcpTools(AgentToolsListing(attached, dup, anon))
            /\ AttachRespond(Returned(FALSE, "Weaviate client not available after re-attempt",
                                      <<>>, <<>>))
            /\ http_response' =
                   [route |-> "attach", code |-> 500, status |-> "",
                    error |-> "Weaviate client not available after re-attempt",
                    details |-> NoDetails]
            /\ UNCHANGED <<envVars, pruneArgs, pruneLocals, batchVars, pruning_result,
                           attachArgs, matching_tools_from_search, processed_tools,
                           results, callNo>>
    /\ UNCHANGED <<mcp_servers_cache_file, request_body, _tool_cache_keys, cache_file_keys>>

\* The descriptor process_matching_tool finds in the list read_tool_cache
\* returned is the one held in _tool_cache: both id keys are written to it.
MirrorKeysAfter(keys, hits) ==
    [id \in Catalog |->
         IF \E i \in 1..Len(hits) : hits[i].id = id THEN IdKeys ELSE keys[id]]

\* Step 4 of attach_tools on the shared mirror.
AttachResolveCached(regs) ==
    /\ AttachResolve(regs)
    /\ _tool_cache_keys' = MirrorKeysAfter(_tool_cache_keys, matching_tools_from_search)
    /\ UNCHANGED <<weaviate_client, mcp_servers_cache_file, request_body,
                   http_response, init_attempts, cache_file_keys>>

\* Results the Vector Store ranks for the query of the request.
FacadeRankings ==
    {<<>>,
     <<[id |-> "m1", tool_type |-> "external_mcp", mcp_server_name |-> "s1"],
       [id |-> "m3", tool_type |-> "external_mcp", mcp_server_name |-> "s1"]>>}

\* The cache file lists its descriptors with "id" only, as the platform
\* lists them, or with both id keys; the mirror holds what was loaded.
InitFacade ==
    /\ attached \in {CoreIds \cup S : S \in SUBSET McpIds}
    /\ ranking \in FacadeRankings
    /\ hashOrder = <<"c1", "m1", "m2", "m3">>
    /\ reliable = FALSE
    /\ InitEngine /\ InitPruneLocals /\ InitCacheIdle /\ InitSyncIdle /\ InitFetchIdle
    /\ weaviate_client \in {"ready", "none", "not_ready"}
    /\ mcp_servers_cache_file = "ok"
    /\ request_body = NoRequest
    /\ http_response = NoResponse
    /\ init_attempts = 0
    /\ cache_file_keys \in {[id \in Catalog |-> {"id"}], [id \in Catalog |-> IdKeys]}
    /\ _tool_cache_keys = cache_file_keys

NextFacade ==
    \/ \E b \in PruneBodies : prune_endpoint(b) /\ UNCHANGED <<cacheVars, syncVars, fetchVars>>
    \/ \E b \in AttachBodies : attach_endpoint(b) /\ UNCHANGED <<cacheVars, syncVars, fetchVars>>
    \/ AttachFetchFails /\ UNCHANGED <<cacheVars, syncVars, facadeVars, fetchVars>>
    \/ \E dup \in BOOLEAN, anon \in BOOLEAN, outcome \in InitClientOutcomes :
           AttachFetchChecked(dup, anon, outcome) /\ UNCHANGED <<cacheVars, syncVars, fetchVars>>
    \/ \E up \in StoreUp(reliable) : AttachSearch(up) /\ UNCHANGED <<cacheVars, syncVars, facadeVars, fetchVars>>
    \/ \E regs \in RegOutcomes(reliable) : AttachResolveCached(regs) /\ UNCHANGED <<cacheVars, syncVars, fetchVars>>
    \/ \E i \in 1..Max(Cardinality(McpIds), MaxLib), r \in Answers(reliable) :
           RequestReturn(i, r) /\ UNCHANGED <<cacheVars, syncVars, facadeVars, fetchVars>>
    \/ AttachIssueAttach /\ UNCHANGED <<cacheVars, syncVars, facadeVars, fetchVars>>
    \/ AttachCollect /\ UNCHANGED <<cacheVars, syncVars, facadeVars, fetchVars>>
    \/ PruneFetchFails /\ UNCHANGED <<cacheVars, syncVars, facadeVars, fetchVars>>
    \/ \E dup \in BOOLEAN, anon \in BOOLEAN : PruneFetch(dup, anon) /\ UNCHANGED <<cacheVars, syncVars, facadeVars, fetchVars>>
    \/ \E up \in StoreUp(reliable) : PruneDecide(up) /\ UNCHANGED <<cacheVars, syncVars, facadeVars, fetchVars>>
    \/ PruneCollect /\ UNCHANGED <<cacheVars, syncVars, facadeVars, fetchVars>>
    \/ AttachAfterPrune /\ UNCHANGED <<cacheVars, syncVars, facadeVars, fetchVars>>

SpecFacade == InitFacade /\ [][NextFacade]_vars


(***************************************************************************)
(* GET /api/health                                                         *)
(***************************************************************************)
\* The Vector Store check: the handle exists, is connected and is ready.
weaviate_ok(client) == client = "ready"

weaviate_status_report(client) == IF weaviate_ok(client) THEN "OK" ELSE "ERROR"

\* The tool cache check looks at the in-memory mirror only.
tool_cache_in_memory_status(cache, file) ==
    IF cache # None THEN "OK"
    ELSE IF ~file.exists THEN "Error: File not found and not loaded"
    ELSE "Error: File exists but not loaded in memory"

\* The MCP-server cache check opens and parses the file on disk.
mcp_servers_cache_file_status(f) ==
    IF f = "ok" THEN "OK"
    ELSE IF f = "missing" THEN "Error: File not found"
    ELSE "Error reading file"

\* Mutant: DEGRADED only when both cache checks fail.
overall_status_string_BothFail(w, t, m) ==
    IF w /\ t = "OK" /\ m = "OK" THEN "OK"
    ELSE IF w /\ t # "OK" /\ m # "OK" THEN "DEGRADED"
    ELSE "ERROR"

\* is_fully_healthy, and DEGRADED whenever the Vector Store check passes.
overall_status_string(w, t, m) ==
    IF w /\ t = "OK" /\ m = "OK" THEN "OK"
    ELSE IF w THEN "DEGRADED"
    ELSE "ERROR"

HealthHttpStatus(status) == IF status = "OK" THEN 200 ELSE 503

\* The handler: the three checks, the overall status and the response.
health_check ==
    /\ LET t == tool_cache_in_memory_status(_tool_cache, cache_file)
           m == mcp_servers_cache_file_status(mcp_servers_cache_file)
           status == overall_status_string(weaviate_ok(weaviate_client), t, m)
       IN  http_response' =
               [route |-> "health", code |-> HealthHttpStatus(status),
                status |-> status, error |-> "",
                details |-> [weaviate |-> weaviate_status_report(weaviate_client),
                             tool_cache_in_memory |-> t,
                             mcp_servers_cache_file |-> m]]
    /\ request_body' = [route |-> "health"]
    /\ UNCHANGED <<weaviate_client, mcp_servers_cache_file, init_attempts,
                   _tool_cache_keys, cache_file_keys>>

\* The server with any state of the handle and of the two cache files; the
\* catalog cache is read by one caller.
InitHealth ==
    /\ attached = CoreIds /\ ranking = <<>> /\ hashOrder = PlatformOrder
    /\ reliable = TRUE /\ InitEngine /\ InitPruneLocals
    /\ InitMirror /\ InitSyncIdle /\ InitFetchIdle
    /\ S_old \in ToolLists \cup {None}
    /\ cache_file \in
          IF S_old = None
          THEN {NoFile, [exists |-> TRUE, content |-> <<"[", "t1">>, mtime |-> 1]}
          ELSE {[exists |-> TRUE, content |-> dumps(S_old), mtime |-> 1]}
    /\ weaviate_client \in HandleStates
    /\ mcp_servers_cache_file \in FileStates
    /\ request_body = NoRequest
    /\ http_response = NoResponse
    /\ init_attempts = 0
    /\ _tool_cache_keys = [id \in Catalog |-> IdKeys]
    /\ cache_file_keys = [id \in Catalog |-> IdKeys]

NextHealth ==
    \/ health_check /\ UNCHANGED <<engineVars, cacheVars, syncVars, fetchVars>>
    \/ \E force_reload \in BOOLEAN :
           read_tool_cache("r1", force_reload) /\ UNCHANGED <<engineVars, syncVars, facadeVars, fetchVars>>
    \/ \E io \in IoOutcomes : ReadContent("r1", io) /\ UNCHANGED <<engineVars, syncVars, facadeVars, fetchVars>>
    \/ ReadParse("r1") /\ UNCHANGED <<engineVars, syncVars, facadeVars, fetchVars>>
    \/ ReadReturn("r1") /\ UNCHANGED <<engineVars, syncVars, facadeVars, fetchVars>>

SpecHealth == InitHealth /\ [][NextHealth]_vars


(***************************************************************************)
(* Specifications of the sync cycle                                        *)
(***************************************************************************)
InitSyncEnv ==
    /\ attached = CoreIds /\ ranking = <<>> /\ hashOrder = PlatformOrder
    /\ InitEngine /\ InitPruneLocals
    /\ InitMirror /\ S_old = None
    /\ platform_tools \in SUBSET PlatformNames
    /\ platform_tags \in BOOLEAN
    /\ mcp_servers \in SUBSET McpServers
    /\ weaviate \in SUBSET StoreNames
    /\ cache_file \in {NoFile, [exists |-> TRUE, content |-> CatalogOf(weaviate), mtime |-> 1]}
    /\ syncer = [p \in Triggers |-> IdleSyncer]
    /\ InitFacadeIdle /\ InitFetchIdle

\* One cycle of the sync service's timer; remote calls may fail.
InitSync == InitSyncEnv /\ reliable \in BOOLEAN /\ enabled_triggers = {"timer"}

\* The timer and POST /api/v1/tools/sync both in use; no remote call fails.
InitSyncTriggers == InitSyncEnv /\ reliable = TRUE /\ enabled_triggers = Triggers

NextSync ==
    \/ \E p \in Triggers : sync_tools(p) /\ UNCHANGED <<engineVars, facadeVars, fetchVars>>
    \/ \E p \in Triggers, main_ok \in Oks(reliable), list_ok \in Oks(reliable),
          srv_ok \in OkSets(reliable, McpServers), reg_ok \in OkSets(reliable, PlatformNames) :
           SyncFetch(p, main_ok, list_ok, srv_ok, reg_ok) /\ UNCHANGED <<engineVars, facadeVars, fetchVars>>
    \/ \E p \in Triggers : SyncWriteCache(p) /\ UNCHANGED <<engineVars, facadeVars, fetchVars>>
    \/ \E p \in Triggers, ok \in Oks(reliable) : SyncFetchStore(p, ok) /\ UNCHANGED <<engineVars, facadeVars, fetchVars>>
    \/ \E p \in Triggers : SyncRemove(p) /\ UNCHANGED <<engineVars, facadeVars, fetchVars>>
    \/ \E p \in Triggers : SyncAdd(p) /\ UNCHANGED <<engineVars, facadeVars, fetchVars>>
    \/ \E p \in Triggers : SyncClose(p) /\ UNCHANGED <<engineVars, facadeVars, fetchVars>>

SpecSync == InitSync /\ [][NextSync]_vars

SpecSyncTriggers == InitSyncTriggers /\ [][NextSync]_vars


(***************************************************************************)
(* Specifications of the paged listing and of the detailed sync cycle      *)
(***************************************************************************)
InitFetchEnv ==
    /\ attached = CoreIds /\ ranking = <<>> /\ hashOrder = PlatformOrder
    /\ InitEngine /\ InitPruneLocals
    /\ InitMirror /\ S_old = None
    /\ InitFacadeIdle

\* One call of fetch_tools_from_server_async on a URL serving any listing;
\* every request may fail in every way.
InitPager ==
    /\ InitFetchEnv /\ reliable = FALSE /\ cache_file = NoFile /\ InitSyncIdle
    /\ server_tools \in Listings
    /\ pager = IdlePager
    /\ registry = [n \in PlatformNames |-> Absent]
    /\ collection = {}
    /\ mcp_servers_cache = NoCacheFile
    /\ cycle = IdleCycle
    /\ registration = IdleRegistration

NextPager ==
    \/ fetch_tools_from_server_async /\ UNCHANGED <<engineVars, cacheVars, syncVars, facadeVars>>
    \/ \E json \in BOOLEAN : PageReceived(json) /\ UNCHANGED <<engineVars, cacheVars, syncVars, facadeVars>>
    \/ \E status \in ErrorStatuses :
           ClientResponseError(status) /\ UNCHANGED <<engineVars, cacheVars, syncVars, facadeVars>>
    \/ ClientError /\ UNCHANGED <<engineVars, cacheVars, syncVars, facadeVars>>
    \/ UnexpectedError /\ UNCHANGED <<engineVars, cacheVars, syncVars, facadeVars>>

SpecPager == InitPager /\ [][NextPager]_vars

\* Every request is answered or times out (timeout=60), and the coroutine
\* is resumed by the event loop: the call keeps taking steps.
SpecPagerLive == SpecPager /\ WF_vars(NextPager)

\* Objects the collection holds when a cycle begins: written by an earlier
\* cycle under the current registration, or under an earlier one and
\* without mcp_server_name.
StoredObject(n, stale) ==
    [name |-> n, tool_id |-> IF stale THEN StaleId ELSE OldId,
     tool_type |-> SyncToolType(n),
     mcp_server_name |-> IF stale THEN NoServer ELSE HomeServer(n),
     born |-> "before"]

StartNames == {{}, {"a"}, {"core", "a"}, {"a", "old"}, {"core", "b", "old"}, StoreNames}

CollectionsAtStart ==
    {{StoredObject(n, stale) : n \in S} : S \in StartNames, stale \in BOOLEAN}

\* The Vector Store answers a whole step of the cycle, or none of it.
StoreOutcomes(rel, S) == IF rel THEN {S} ELSE {S, {}}

InitCycle ==
    /\ InitFetchEnv
    /\ reliable \in BOOLEAN
    /\ platform_tools \in SUBSET PlatformNames
    /\ registry = [n \in PlatformNames |-> IF n \in platform_tools THEN OldId ELSE Absent]
    /\ platform_tags \in BOOLEAN
    /\ mcp_servers \in SUBSET McpServers
    /\ weaviate = NoNames
    /\ enabled_triggers = NoNames
    /\ syncer = [p \in Triggers |-> IdleSyncer]
    /\ collection \in CollectionsAtStart
    /\ cache_file = IF collection = {} THEN NoFile
                    ELSE [exists |-> TRUE, content |-> CatalogOf(Names(collection)), mtime |-> 1]
    /\ mcp_servers_cache = IF collection = {} THEN NoCacheFile
                           ELSE [exists |-> TRUE, servers |-> McpServers, mtime |-> 1]
    /\ server_tools = <<>>
    /\ pager = IdlePager
    /\ cycle = IdleCycle
    /\ registration = IdleRegistration

NextCycle ==
    \/ \E missing_vars \in BOOLEAN : CycleStart(missing_vars) /\ UNCHANGED <<engineVars, facadeVars>>
    \/ \E main_pages \in IF reliable THEN {PagesOf(MainListing)} ELSE 0..PagesOf(MainListing),
          list_ok \in Oks(reliable), srv_ok \in OkSets(reliable, McpServers),
          reg_ok \in OkSets(reliable, PlatformNames) :
           CycleFetch(main_pages, list_ok, srv_ok, reg_ok) /\ UNCHANGED <<engineVars, facadeVars>>
    \/ CycleWriteToolCache /\ UNCHANGED <<engineVars, facadeVars>>
    \/ \E ok \in Oks(reliable) : CycleFetchMcpServers(ok) /\ UNCHANGED <<engineVars, facadeVars>>
    \/ \E connected \in Oks(reliable), ok \in Oks(reliable) :
           CycleFetchStore(connected, ok) /\ UNCHANGED <<engineVars, facadeVars>>
    \/ \E deleted \in StoreOutcomes(reliable, CycleObsolete) : CycleRemove(deleted) /\ UNCHANGED <<engineVars, facadeVars>>
    \/ \E added \in StoreOutcomes(reliable, CycleNew) : CycleAdd(added) /\ UNCHANGED <<engineVars, facadeVars>>
    \/ \E updated \in StoreOutcomes(reliable, updates_to_make) : CycleBackfill(updated) /\ UNCHANGED <<engineVars, facadeVars>>
    \/ CycleClose /\ UNCHANGED <<engineVars, facadeVars>>

SpecCycle == InitCycle /\ [][NextCycle]_vars

\* One MCP tool, found without a platform id, is registered and attached
\* by the helper of tool_finder_agent or by the attach engine.
InitRegister ==
    /\ InitFetchEnv /\ reliable = FALSE /\ cache_file = NoFile /\ InitSyncIdle
    /\ server_tools = <<>>
    /\ pager = IdlePager
    /\ registry = [n \in PlatformNames |-> Absent]
    /\ collection = {}
    /\ mcp_servers_cache = NoCacheFile
    /\ cycle = IdleCycle
    /\ \E n \in {"a", "b"}, s \in McpServers :
          registration = [IdleRegistration EXCEPT !.tool_name = n, !.server_name = s]

NextRegister ==
    \/ \E response \in RegistrationResponses :
           FinderRegisters(response) /\ UNCHANGED <<engineVars, cacheVars, syncVars, facadeVars>>
    \/ \E response \in RegistrationResponses :
           EngineRegisters(response) /\ UNCHANGED <<engineVars, cacheVars, syncVars, facadeVars>>
    \/ IssueAttachRequests /\ UNCHANGED <<engineVars, cacheVars, syncVars, facadeVars>>

SpecRegister == InitRegister /\ [][NextRegister]_vars

(***************************************************************************)
(* A sync cycle whose main listing is fetched page by page                 *)
(***************************************************************************)

\* GET /tools serves one record, with an id, per registered tool.
RegistryListing == [i \in 1..Len(MainListing) |-> Item(i, TRUE)]

\* The page requests that brought all_tools.
PagesReceived == (Len(pager.all_tools) + PageLimit - 1) \div PageLimit

PartialStartNames == {{}, {"core", "a"}, StoreNames}

InitPartial ==
    /\ InitFetchEnv
    /\ reliable = FALSE
    /\ platform_tools \in {PlatformNames, {"core", "a"}, {"a", "b"}}
    /\ registry = [n \in PlatformNames |-> IF n \in platform_tools THEN OldId ELSE Absent]
    /\ platform_tags \in BOOLEAN
    /\ mcp_servers \in SUBSET McpServers
    /\ weaviate = NoNames
    /\ enabled_triggers = NoNames
    /\ syncer = [p \in Triggers |-> IdleSyncer]
    /\ collection \in {{StoredObject(n, FALSE) : n \in S} : S \in PartialStartNames}
    /\ cache_file = IF collection = {} THEN NoFile
                    ELSE [exists |-> TRUE, content |-> CatalogOf(Names(collection)), mtime |-> 1]
    /\ mcp_servers_cache = IF collection = {} THEN NoCacheFile
                           ELSE [exists |-> TRUE, servers |-> McpServers, mtime |-> 1]
    /\ server_tools = RegistryListing
    /\ pager = IdlePager
    /\ cycle = IdleCycle
    /\ registration = IdleRegistration

\* fetch_all_tools_async calls fetch_tools_from_server_async for GET /tools
\* and goes on with the list it returns.
NextPartial ==
    \/ \E missing_vars \in BOOLEAN : CycleStart(missing_vars) /\ UNCHANGED <<engineVars, facadeVars>>
    \/ cycle.pc = "fetch" /\ fetch_tools_from_server_async
          /\ UNCHANGED <<engineVars, cacheVars, syncVars, facadeVars>>
    \/ \E json \in BOOLEAN : PageReceived(json) /\ UNCHANGED <<engineVars, cacheVars, syncVars, facadeVars>>
    \/ \E status \in ErrorStatuses :
           ClientResponseError(status) /\ UNCHANGED <<engineVars, cacheVars, syncVars, facadeVars>>
    \/ ClientError /\ UNCHANGED <<engineVars, cacheVars, syncVars, facadeVars>>
    \/ UnexpectedError /\ UNCHANGED <<engineVars, cacheVars, syncVars, facadeVars>>
    \/ \E list_ok \in BOOLEAN, srv_ok \in SUBSET McpServers, reg_ok \in SUBSET PlatformNames :
           /\ pager.pc = "returned"
           /\ CycleFetch(PagesReceived, list_ok, srv_ok, reg_ok)
           /\ UNCHANGED <<engineVars, facadeVars>>
    \/ CycleWriteToolCache /\ UNCHANGED <<engineVars, facadeVars>>
    \/ \E ok \in BOOLEAN : CycleFetchMcpServers(ok) /\ UNCHANGED <<engineVars, facadeVars>>
    \/ \E connected \in BOOLEAN, ok \in BOOLEAN :
           CycleFetchStore(connected, ok) /\ UNCHANGED <<engineVars, facadeVars>>
    \/ \E deleted \in StoreOutcomes(reliable, CycleObsolete) : CycleRemove(deleted) /\ UNCHANGED <<engineVars, facadeVars>>
    \/ \E added \in StoreOutcomes(reliable, CycleNew) : CycleAdd(added) /\ UNCHANGED <<engineVars, facadeVars>>
    \/ \E updated \in StoreOutcomes(reliable, updates_to_make) : CycleBackfill(updated) /\ UNCHANGED <<engineVars, facadeVars>>
    \/ CycleClose /\ UNCHANGED <<engineVars, facadeVars>>

SpecPartial == InitPartial /\ [][NextPartial]_vars

(***************************************************************************)
(* Properties of prune                                                     *)
(***************************************************************************)

\* A prune call is past its decision: the detach batch is issued.
PruneDecided ==
    \/ pc = "prune_detach"
    \/ pruning_result.state = "returned" /\ pruning_result.message = "Pruning completed"

PruneReturned == pruning_result.state = "returned"

\* The quantities the claims name, computed from the request and M_cur.
ClaimN == Cardinality(current_mcp_tool_ids)

ClaimT == (ClaimN * (10 - pruneArgs.drop_rate)) \div 10

ClaimMust ==
    (pruneArgs.keep_tool_ids \cup pruneArgs.newly_matched_tool_ids)
        \cap current_mcp_tool_ids

DetachRequested == Range(batchIds)

\* C1. Core invariance: every tool for which prune issues a detach request
\* has tool_type external_mcp on the agent, and a prune call leaves every
\* attached core tool attached.
C1_CoreInvariance ==
    /\ PruneDecided =>
          /\ \A id \in DetachRequested : ToolType(id) = "external_mcp"
          /\ \A id \in mcp_tools_to_detach_ids : ToolType(id) = "external_mcp"
    /\ pruneArgs.caller = "endpoint" /\ PruneReturned =>
          current_core_tool_ids \subseteq attached

C1_Witness ==
    /\ pruneArgs.caller = "endpoint"
    /\ pc = "done" /\ PruneDecided
    /\ current_core_tool_ids # {}
    /\ "c1" \in pruneArgs.keep_tool_ids
    /\ Len(pruning_result.detached) >= 2

\* C2. Keep-set invariant (normal mode): when fewer must-keep ids are on
\* the agent than the target T, no must-keep id is in the detach set, and
\* each of them is still attached when the call has returned.
C2_KeepSetNormalMode ==
    PruneDecided /\ Cardinality(ClaimMust) < ClaimT =>
        /\ ClaimMust \cap DetachRequested = {}
        /\ ClaimMust \cap mcp_tools_to_detach_ids = {}
        /\ pruneArgs.caller = "endpoint" => ClaimMust \subseteq attached

C2_Witness ==
    /\ pruneArgs.caller = "endpoint"
    /\ pc = "done" /\ PruneDecided
    /\ Cardinality(ClaimMust) < ClaimT
    /\ ClaimMust # {}
    /\ Len(pruning_result.detached) >= 1
    /\ ClaimMust \subseteq attached

\* C3 as stated: in aggressive mode with N >= 1 at least
\* N - max(1, floor(0.8 N)) MCP tools are detached, which is at least one.
C3_AggressiveProgress_Stated ==
    PruneDecided /\ ClaimN >= 1 /\ Cardinality(ClaimMust) >= ClaimT =>
        /\ Len(batchIds) >= ClaimN - Max(1, (8 * ClaimN) \div 10)
        /\ Len(batchIds) >= 1

\* C3 as amended: in aggressive mode a detach request is issued for at
\* least N - max(1, floor(0.8 N)) MCP tools, one request per tool of the
\* detach set; that is at least one tool whenever N >= 2.
C3_AggressiveProgress ==
    PruneDecided /\ ClaimN >= 1 /\ Cardinality(ClaimMust) >= ClaimT =>
        /\ Cardinality(DetachRequested) = Len(batchIds)
        /\ DetachRequested = mcp_tools_to_detach_ids
        /\ Len(batchIds) >= ClaimN - Max(1, (8 * ClaimN) \div 10)
        /\ ClaimN >= 2 => Len(batchIds) >= 1

C3_Witness ==
    /\ pc = "done" /\ PruneDecided
    /\ ClaimN >= 2
    /\ ClaimMust = current_mcp_tool_ids
    /\ Len(pruning_result.detached) >= 1


\* The attached MCP tools the library ranks as external_mcp, best first.
RankedAttached ==
    LET sel == SelectSeq(ranking, LAMBDA t :
                   t.tool_type = "external_mcp" /\ t.id \in current_mcp_tool_ids)
    IN  [i \in 1..Len(sel) |-> sel[i].id]

PruneCase(n, d, keep) ==
    /\ pruneArgs.caller = "endpoint" /\ PruneDecided
    /\ ClaimN = n
    /\ pruneArgs.drop_rate = d
    /\ pruneArgs.keep_tool_ids = keep
    /\ pruneArgs.newly_matched_tool_ids = {}

\* C14 as stated: with N = 10, drop_rate 0.6 and nothing to keep, T = 4,
\* exactly 6 MCP tools are detached and exactly 4 kept, the kept ones being
\* the attached MCP tools in library rank order, and no core tool is detached.
C14_NormalScenario_Stated ==
    PruneCase(10, 6, {}) =>
        /\ num_mcp_tools_to_keep = 4
        /\ Cardinality(DetachRequested) = 6
        /\ Cardinality(final_mcp_tool_ids_to_keep) = 4
        /\ final_mcp_tool_ids_to_keep = Range(Take(RankedAttached, 4))
        /\ DetachRequested \cap current_core_tool_ids = {}

\* C14 as amended: with N = 10, drop_rate 0.6 and nothing to keep, T = 4;
\* the kept tools are the first 4 attached MCP tools in library rank order,
\* or all of them when the library ranks fewer than 4; every other MCP tool
\* gets a detach request (6 when the library ranks at least 4 attached MCP
\* tools, more otherwise); no core tool gets one, and when the call has
\* returned the agent holds its core tools and the kept tools.
C14_NormalScenario ==
    PruneCase(10, 6, {}) =>
        /\ num_mcp_tools_to_keep = 4
        /\ final_mcp_tool_ids_to_keep = Range(Take(RankedAttached, 4))
        /\ DetachRequested = current_mcp_tool_ids \ final_mcp_tool_ids_to_keep
        /\ Len(batchIds) = 10 - Cardinality(final_mcp_tool_ids_to_keep)
        /\ Len(RankedAttached) >= 4 =>
              Len(batchIds) = 6 /\ Cardinality(final_mcp_tool_ids_to_keep) = 4
        /\ \A id \in DetachRequested : ToolType(id) = "external_mcp"
        /\ pc = "done" =>
              attached = current_core_tool_ids \cup final_mcp_tool_ids_to_keep

C14_Witness ==
    /\ PruneCase(10, 6, {}) /\ pc = "done"
    /\ Len(ranking) > Len(RankedAttached)
    /\ final_mcp_tool_ids_to_keep = {"t9", "t2", "t7", "t5"}
    /\ Len(pruning_result.detached) = 6
    /\ current_core_tool_ids # {}


\* C15 as stated: with N = 5, drop_rate 0.1 (T = 4) and all 5 attached MCP
\* ids in keep_tool_ids, prune is in aggressive mode with T' = 4, the final
\* kept set has exactly 4 ids and exactly 1 MCP tool is detached.
C15_AggressiveScenario_Stated ==
    PruneCase(5, 1, FiveIds) =>
        /\ num_mcp_tools_to_keep = 4
        /\ Cardinality(ClaimMust) >= num_mcp_tools_to_keep
        /\ Cardinality(final_mcp_tool_ids_to_keep) = 4
        /\ Cardinality(DetachRequested) = 1

\* C15 as amended: with N = 5, drop_rate 0.1 (T = 4) and all 5 attached MCP
\* ids in keep_tool_ids, prune is in aggressive mode with T' = 4 and keeps
\* the first 4 of them in library rank order, or only those the library
\* ranks when it ranks fewer than 4; every other MCP tool gets a detach
\* request: exactly 1 when the library ranks at least 4 of them, more
\* otherwise.
C15_AggressiveScenario ==
    PruneCase(5, 1, FiveIds) =>
        /\ num_mcp_tools_to_keep = 4
        /\ Cardinality(ClaimMust) >= num_mcp_tools_to_keep
        /\ final_mcp_tool_ids_to_keep = Range(Take(RankedAttached, 4))
        /\ DetachRequested = current_mcp_tool_ids \ final_mcp_tool_ids_to_keep
        /\ Len(batchIds) = 5 - Cardinality(final_mcp_tool_ids_to_keep)
        /\ Len(RankedAttached) >= 4 =>
              Len(batchIds) = 1 /\ Cardinality(final_mcp_tool_ids_to_keep) = 4
        /\ pc = "done" =>
              attached = current_core_tool_ids \cup final_mcp_tool_ids_to_keep

C15_Witness ==
    /\ PruneCase(5, 1, FiveIds) /\ pc = "done"
    /\ final_mcp_tool_ids_to_keep = {"t1", "t2", "t3", "t4"}
    /\ pruning_result.detached = <<"t5">>
    /\ "t5" \notin attached


(***************************************************************************)
(* Properties of attach                                                    *)
(***************************************************************************)

AttachReturned == pc = "done" /\ attach_response.state = "returned"

\* M_cur of an attach call, and the ids its request asks to keep.
AttachMcur == Range(mcp_tools)

AttachKeepIds == attachArgs.keep_tools \cup Range(processed_tools)

\* C4 as stated: the same attach request sent twice leaves the agent with
\* the same attached tools after the second call as after the first.
C4_AttachIdempotent ==
    AttachReturned /\ callNo = 2 /\ attach_response.success =>
        attached = firstAttached

\* C5. Attach-phase detach set: process_tools issues detach requests for
\* exactly the tools of the deduplicated M_cur whose id is neither in
\* keep_tools nor the id of a resolved candidate; none of them is a
\* non-MCP tool.
C5_AttachDetachSet ==
    /\ pc \in {"attach_search", "attach_resolve"} =>
          /\ AttachMcur = attached \cap McpIds
          /\ Len(mcp_tools) = Cardinality(AttachMcur)
    /\ pc = "attach_detach" =>
          /\ Range(batchIds) = {t \in AttachMcur : t \notin AttachKeepIds}
          /\ Len(batchIds) = Cardinality(Range(batchIds))
          /\ \A t \in Range(batchIds) : ToolType(t) = "external_mcp"
    /\ pc = "attach_attach" =>
          Range(results.detached_tools) \cup Range(results.failed_detachments)
              = {t \in AttachMcur : t \notin AttachKeepIds}

C5_Witness ==
    /\ pc = "attach_detach"
    /\ batchIds # <<>>
    /\ attachArgs.keep_tools \cap AttachMcur # {}
    /\ Range(processed_tools) \cap AttachMcur # {}
    /\ "c1" \in attachArgs.keep_tools

\* C6 as stated: when an attach call has returned, every id of keep_tools
\* that was an attached MCP tool at its start is still attached.
C6_MustKeepRespected ==
    AttachReturned /\ attach_response.success =>
        (attachArgs.keep_tools \cap AttachMcur) \subseteq attached

\* C7. Ordering within one attach call: the attach requests are issued in
\* a step taken when every detach request has returned, and the chained
\* prune starts in a step taken when every attach request has returned.
C7_AttachOrdering ==
    [][/\ (pc = "attach_detach" /\ pc' = "attach_attach") => BatchDone
       /\ (pc = "attach_attach" /\ pc' # "attach_attach") => BatchDone
       /\ pc' = "prune_fetch" /\ pc # "prune_fetch" /\ pruneArgs'.caller = "attach"
              => pc = "attach_attach" /\ BatchDone]_vars

C7_Witness ==
    /\ pc = "prune_detach"
    /\ pruneArgs.caller = "attach"
    /\ Len(results.detached_tools) + Len(results.failed_detachments) >= 1
    /\ Len(results.successful_attachments) >= 2
    /\ batchIds # <<>>

\* The per-item outcomes a collecting step must record for the batch.
OutcomeIds(ok) == {batchIds[i] : i \in {j \in 1..Len(batchIds) : batchResp[j].success = ok}}

IsolatedOutcomes(okIds, failIds) ==
    /\ Len(okIds) + Len(failIds) = Len(batchIds)
    /\ Range(okIds) = OutcomeIds(TRUE)
    /\ Range(failIds) = OutcomeIds(FALSE)

\* C8. Batch isolation: a returned item's outcome carries the id it was
\* issued for and is never changed by the return of another item; a failed
\* item changes nothing on the platform; and the step that collects a batch
\* of N mutations records exactly N outcomes, the successes and failures
\* being those of the items' own answers.
C8_BatchIsolation ==
    [][/\ \A i \in 1..Len(batchIds) :
              batchResp[i] # Inflight =>
                  /\ batchResp[i].tool_id = batchIds[i]
                  /\ batchIds' = batchIds /\ batchKind' = batchKind
                         => batchResp'[i] = batchResp[i]
       /\ \A i \in 1..Len(batchIds) :
              /\ batchIds' = batchIds /\ batchKind' = batchKind
              /\ batchResp[i] = Inflight /\ batchResp'[i] # Inflight
              /\ ~batchResp'[i].success
              => attached' = attached
       /\ (pc = "attach_detach" /\ pc' = "attach_attach") =>
              IsolatedOutcomes(results'.detached_tools, results'.failed_detachments)
       /\ (pc = "attach_attach" /\ pc' # "attach_attach") =>
              IsolatedOutcomes(results'.successful_attachments, results'.failed_attachments)
       /\ (pc = "prune_detach" /\ pc' # "prune_detach") =>
              /\ pruning_result'.success
              /\ IsolatedOutcomes(pruning_result'.detached, pruning_result'.failed)]_vars

C8_Witness ==
    /\ pc = "attach_pruned"
    /\ Len(results.detached_tools) >= 1 /\ Len(results.failed_detachments) >= 1
    /\ Len(results.successful_attachments) >= 1 /\ Len(results.failed_attachments) >= 1
    /\ Len(pruning_result.detached) >= 1 /\ Len(pruning_result.failed) >= 1

(***************************************************************************)
(* Properties of the tool cache                                            *)
(***************************************************************************)

\* A read_tool_cache call of reader r that has returned without meeting an
\* I/O fault of the host.
ReadCompleted(r) == reader[r].pc = "returned" /\ reader[r].path # "oserror"

\* C9 as stated: with one write_tool_cache(S) over a file holding S_old,
\* every read that returns yields S_old or S in full, and every read begun
\* after the write has completed yields S.
C9_CacheCoherence ==
    S_old # None /\ writes <= 1 =>
        \A r \in Readers :
            ReadCompleted(r) =>
                /\ reader[r].result \in
                       (IF writes = 0 THEN {S_old} ELSE {S_old, writer.data})
                /\ reader[r].afterWrite => reader[r].result = writer.data

\* Reader r makes a call in this step: its call bit flips.
ReadCalled(r) == reader'[r].call # reader[r].call

\* What read_tool_cache does on an error: [] returned, mirror reset.
ReadErrorOutcome(r) ==
    /\ reader'[r].pc = "returned"
    /\ reader'[r].result = <<>>
    /\ _tool_cache' = <<>>
    /\ _tool_cache_last_modified' = 0

\* C10. Cache read rule: a call goes on to read and parse the file exactly
\* when force_reload is set, or the mirror is None, or the file mtime is
\* greater than the last-loaded mtime; otherwise it returns the mirror and
\* changes nothing. A missing file, a failure to open it and a text that is
\* not JSON each return [] with the mirror reset to [] and last-loaded
\* mtime 0, after which the next call on an existing file reloads.
C10_CacheReadRule ==
    [][\A r \in Readers :
          /\ ReadCalled(r) /\ cache_file.exists =>
                /\ reader'[r].pc = "read" <=>
                       \/ reader'[r].force_reload
                       \/ _tool_cache = None
                       \/ cache_file.mtime > _tool_cache_last_modified
                /\ reader'[r].pc # "read" =>
                       /\ reader'[r].pc = "returned"
                       /\ reader'[r].result = OrEmpty(_tool_cache)
                       /\ _tool_cache' = _tool_cache
                       /\ _tool_cache_last_modified' = _tool_cache_last_modified
                /\ _tool_cache_last_modified = 0 => reader'[r].pc = "read"
          /\ ReadCalled(r) /\ ~cache_file.exists => ReadErrorOutcome(r)
          /\ reader[r].pc = "read" /\ reader'[r].pc = "parse" =>
                reader'[r].content = cache_file.content
          /\ reader[r].pc = "read" /\ reader'[r].pc \notin {"read", "parse"} =>
                ReadErrorOutcome(r)
          /\ reader[r].pc = "parse" /\ reader'[r].pc # "parse"
                /\ IsJson(reader[r].content) =>
                    /\ _tool_cache' = loads(reader[r].content)
                    /\ ~reader'[r].failed
          /\ reader[r].pc = "parse" /\ reader'[r].pc # "parse"
                /\ ~IsJson(reader[r].content) => reader'[r].failed
          /\ reader[r].pc = "close" /\ reader'[r].pc # "close" /\ reader[r].failed =>
                ReadErrorOutcome(r)
          /\ reader[r].pc = "close" /\ reader'[r].pc # "close" /\ ~reader[r].failed =>
                /\ reader'[r].pc = "returned"
                /\ reader'[r].result = OrEmpty(_tool_cache)
                /\ _tool_cache_last_modified' = reader[r].current_mtime]_vars

C10_Witness ==
    \E r1, r2 \in Readers :
        /\ reader[r1].pc = "returned" /\ reader[r1].path = "loaded"
        /\ reader[r2].pc = "returned" /\ reader[r2].path = "mirror"
        /\ reader[r2].result = writer.data /\ writer.pc = "done"
        /\ _tool_cache = writer.data
        /\ _tool_cache_last_modified = cache_file.mtime

(***************************************************************************)
(* Properties of the sync cycle                                            *)
(***************************************************************************)
SyncCompleted(p) == syncer[p].pc = "done"

\* names(platform tools) \cup names(tools of active MCP servers), without
\* the external_mcp tools whose server is not active.
ConvergedNames ==
    {n \in platform_tools \cup {m \in PlatformNames : HomeServer(m) \in mcp_servers} :
        SyncToolType(n) = "external_mcp" => HomeServer(n) \in mcp_servers}

\* C11: when a sync cycle in which no remote call fails has completed, the
\* names of the objects of the Vector Store collection are the names in the
\* catalog cache, and these are the names of the platform tools and of the
\* tools of the active MCP servers, obsolete external_mcp tools left out.
C11_SyncConvergence ==
    (reliable /\ SyncCompleted("timer")) =>
        /\ weaviate = CatalogNames
        /\ CatalogNames = ConvergedNames

\* The list of a cycle holds no external_mcp tool whose server is not in the
\* server list that cycle fetched.
NoObsoleteFetched(p) ==
    \A n \in syncer[p].letta_tools :
        SyncToolType(n) = "external_mcp" => HomeServer(n) \in syncer[p].active

\* No descriptor of server S is left in the catalog cache or the Vector Store.
ServerGone(S) ==
    \A n \in PlatformNames :
        HomeServer(n) = S => n \notin CatalogNames /\ n \notin weaviate

\* C12: the list fetch_all_tools_async returns holds no external_mcp tool
\* whose server is missing or not in the server list of the cycle; and once a
\* cycle in which no remote call fails has completed, no descriptor of a
\* server absent from the server list is left in the catalog cache or in the
\* Vector Store.
C12_ObsolescenceFilter ==
    /\ \A p \in Triggers : NoObsoleteFetched(p)
    /\ (reliable /\ SyncCompleted("timer")) =>
           \A S \in McpServers \ mcp_servers : ServerGone(S)

SyncInProgress(p) == syncer[p].pc \notin {"idle", "done"}

\* C13: at no time are two executions of sync_tools in progress at once,
\* the one started by the timer and the one started by POST
\* /api/v1/tools/sync.
C13_NoOverlappingCycles ==
    ~(SyncInProgress("timer") /\ SyncInProgress("manual"))

(***************************************************************************)
(* Properties of candidate resolution and of the chained prune             *)
(***************************************************************************)

\* The attach call is past step 4: R is built.
AttachResolved ==
    /\ callNo >= 1
    /\ pc \notin {"idle", "attach_fetch", "attach_search", "attach_resolve"}
    /\ pc = "done" => attach_response.success

\* The search hits whose name has no id in the catalog cache and that
\* carry mcp_server_name: the ones a registration call is issued for.
HitsToRegister ==
    {i \in 1..Len(matching_tools_from_search) :
        /\ matching_tools_from_search[i].id \notin Catalog
        /\ matching_tools_from_search[i].mcp_server_name # NoServer}

HitIds(I) == {matching_tools_from_search[i].id : i \in I}

AttachDecidesPrune == pc = "attach_attach" /\ pc' # "attach_attach"

ChainedPruneArgs(newly) ==
    [caller |-> "attach", drop_rate |-> DEFAULT_DROP_RATE,
     keep_tool_ids |-> attachArgs.keep_tools, newly_matched_tool_ids |-> newly]

\* C18 as stated: an attach call invokes prune exactly when the query is
\* not empty and R is not empty, with drop_rate = DEFAULT_DROP_RATE,
\* keep_tool_ids = keep_tools and newly_matched_tool_ids = the ids of R.
C18_PruneChaining_Stated ==
    [][AttachDecidesPrune =>
          /\ pc' = "prune_fetch" <=> (attachArgs.query # "" /\ processed_tools # <<>>)
          /\ pc' = "prune_fetch" => pruneArgs' = ChainedPruneArgs(Range(processed_tools))]_vars

\* C18 as amended: an attach call invokes prune exactly when the query is
\* not empty and at least one attachment succeeded, with drop_rate =
\* DEFAULT_DROP_RATE, keep_tool_ids = keep_tools and newly_matched_tool_ids =
\* the ids of the successful attachments; otherwise it responds at once, and
\* prune is entered from no other step of the call.
C18_PruneChaining ==
    [][/\ AttachDecidesPrune =>
             /\ pc' = "prune_fetch" <=>
                    (attachArgs.query # "" /\ results'.successful_attachments # <<>>)
             /\ pc' = "prune_fetch" =>
                    pruneArgs' = ChainedPruneArgs(Range(results'.successful_attachments))
             /\ pc' # "prune_fetch" => pc' = "done"
       /\ (pc # "prune_fetch" /\ pc' = "prune_fetch") => pc = "attach_attach"]_vars

C18_Witness ==
    /\ pc = "prune_fetch" /\ pruneArgs.caller = "attach"
    /\ attachArgs.query # ""
    /\ pruneArgs.keep_tool_ids = {"m1", "m2"}
    /\ pruneArgs.newly_matched_tool_ids = Range(results.successful_attachments)
    /\ results.failed_attachments # <<>>
    /\ Len(processed_tools) = 2

\* The chained prune has returned success = false to attach_tools.
ChainedPruneFailed ==
    /\ pruneArgs.caller = "attach"
    /\ pruning_result.state = "returned" /\ ~pruning_result.success

\* C19: when the prune chained from attach returns success = false (its own
\* exceptions included), the attach call still answers success = true, and
\* the per-tool outcomes of the attach phase are those process_tools
\* returned: no step of the prune changes them.
C19_PruneFailureIsolation ==
    [][/\ (pruneArgs.caller = "attach"
            /\ pc \in {"prune_fetch", "prune_search", "prune_detach", "attach_pruned"})
           => results' = results
       /\ (pc = "attach_pruned" /\ pc' = "done" /\ ChainedPruneFailed) =>
             /\ attach_response'.state = "returned"
             /\ attach_response'.success
             /\ attach_response'.detached = results.detached_tools
             /\ attach_response'.failed = results.failed_detachments]_vars

C19_Witness ==
    /\ AttachReturned /\ ChainedPruneFailed
    /\ attach_response.success
    /\ results.successful_attachments # <<>>
    /\ results.detached_tools # <<>>
    /\ attach_response.detached = results.detached_tools

(***************************************************************************)
(* Properties of detach_tool                                               *)
(***************************************************************************)

\* Request i of the detach batch returns in this step.
DetachReturns(i) ==
    /\ batchKind = "detach" /\ batchKind' = "detach" /\ batchIds' = batchIds
    /\ batchResp[i] = Inflight /\ batchResp'[i] # Inflight

\* C20: a detach request the platform answers with 404, the tool being no
\* longer attached, returns a success that carries the warning and changes
\* nothing on the platform; only a 404 carries the warning; and the prune
\* that collects the batch counts such a tool among the detached tools, not
\* among the failed detachments.
C20_DetachIdempotence ==
    [][/\ \A i \in 1..Len(batchIds) : DetachReturns(i) =>
             /\ (reliable /\ batchIds[i] \notin attached) =>
                    batchResp'[i].success /\ batchResp'[i].warning
             /\ batchResp'[i].warning =>
                    /\ batchIds[i] \notin attached
                    /\ batchResp'[i].success
                    /\ attached' = attached
       /\ (pc = "prune_detach" /\ pc' # "prune_detach") =>
             \A i \in 1..Len(batchIds) : batchResp[i].warning =>
                 /\ batchIds[i] \in Range(pruning_result'.detached)
                 /\ batchIds[i] \notin Range(pruning_result'.failed)]_vars

C20_Witness ==
    /\ pc = "done" /\ PruneDecided
    /\ \E i \in 1..Len(batchIds) :
          /\ batchResp[i].warning
          /\ batchIds[i] \in Range(pruning_result.detached)
    /\ \E i \in 1..Len(batchIds) : batchResp[i].success /\ ~batchResp[i].warning

(***************************************************************************)
(* Properties of the answers to single mutations                           *)
(***************************************************************************)

\* Request i of the attach batch returns in this step.
AttachReturns(i) ==
    /\ batchKind = "attach" /\ batchKind' = "attach" /\ batchIds' = batchIds
    /\ i \in 1..Len(batchIds)
    /\ batchResp[i] = Inflight /\ batchResp'[i] # Inflight

\* C21. Attach conflict is success: on a platform that answers Conflict to
\* the attachment of an already attached tool, such an attach request is
\* reported as a per-item success, and when the batch is collected the tool
\* is in successful_attachments and not in failed_attachments.
C21_AttachConflictIsSuccess ==
    [][/\ \A i \in 1..Len(batchIds) :
              AttachReturns(i) /\ batchIds[i] \in attached => batchResp'[i].success
       /\ (pc = "attach_attach" /\ pc' # "attach_attach") =>
              \A id \in Range(batchIds) \cap Range(mcp_tools) :
                  /\ id \in Range(results'.successful_attachments)
                  /\ id \notin Range(results'.failed_attachments)]_vars

\* Request i of the batch in progress, sent once, has its outcome reported
\* in this step.
MutationReported(i) ==
    /\ batchKind # "none" /\ batchKind' = batchKind /\ batchIds' = batchIds
    /\ i \in 1..Len(batchIds)
    /\ batchResp[i] = Inflight /\ batchResp'[i] # Inflight

\* C22. Retry of mutations: an attach or detach request whose attempt fails
\* with a 5xx status or a transport error (a timeout included) is sent again,
\* up to 3 attempts, and is reported as a per-item failure only when all of
\* them failed; so no request is reported as failed on the answer to its
\* first and only attempt (the platform's failing answers here are HTTP 500
\* and timeouts, never a terminal 4xx).
C22_MutationRetry ==
    [][\A i \in 1..Len(batchIds) :
           MutationReported(i) => batchResp'[i].success]_vars

(***************************************************************************)
(* Properties of GET /api/health                                           *)
(***************************************************************************)

\* The three checks on the state the handler sees.
VectorStoreCheck == weaviate_client = "ready"

ToolCacheCheck == _tool_cache # None

McpServersCacheCheck == mcp_servers_cache_file = "ok"

\* A health_check call answers in this step.
HealthAnswered == http_response'.route = "health" /\ http_response' # http_response

\* C23 as stated: OK iff the three checks pass, DEGRADED iff only the Vector
\* Store check passes (both cache checks fail), ERROR otherwise; HTTP 200
\* iff OK and 503 otherwise.
C23_HealthMapping_Stated ==
    [][HealthAnswered =>
          /\ http_response'.status = "OK" <=>
                 VectorStoreCheck /\ ToolCacheCheck /\ McpServersCacheCheck
          /\ http_response'.status = "DEGRADED" <=>
                 VectorStoreCheck /\ ~ToolCacheCheck /\ ~McpServersCacheCheck
          /\ http_response'.status \in {"OK", "DEGRADED", "ERROR"}
          /\ http_response'.code = IF http_response'.status = "OK" THEN 200 ELSE 503]_vars

\* C23. Health status mapping: GET /api/health reports OK iff the three
\* checks pass, DEGRADED iff the Vector Store check passes and at least one
\* of the two cache checks fails, and ERROR iff the Vector Store check fails;
\* the HTTP status is 200 iff the status is OK and 503 otherwise, so a Vector
\* Store that is down gives 503 with ERROR whatever the caches.
C23_HealthMapping ==
    [][HealthAnswered =>
          /\ http_response'.status = "OK" <=>
                 VectorStoreCheck /\ ToolCacheCheck /\ McpServersCacheCheck
          /\ http_response'.status = "DEGRADED" <=>
                 VectorStoreCheck /\ ~(ToolCacheCheck /\ McpServersCacheCheck)
          /\ http_response'.status = "ERROR" <=> ~VectorStoreCheck
          /\ http_response'.code = (IF http_response'.status = "OK" THEN 200 ELSE 503)
          /\ http_response'.details.weaviate = "OK" <=> VectorStoreCheck
          /\ http_response'.details.tool_cache_in_memory = "OK" <=> ToolCacheCheck
          /\ http_response'.details.mcp_servers_cache_file = "OK" <=> McpServersCacheCheck]_vars

\* The Vector Store check and exactly one cache check pass: DEGRADED, 503.
C23_Witness ==
    /\ http_response.route = "health"
    /\ http_response.status = "DEGRADED" /\ http_response.code = 503
    /\ http_response.details.weaviate = "OK"
    /\ http_response.details.tool_cache_in_memory = "OK"
    /\ http_response.details.mcp_servers_cache_file # "OK"

(***************************************************************************)
(* Properties of the handlers                                              *)
(***************************************************************************)

\* No register, detach or attach request has been issued for the call.
NothingIssued ==
    /\ batchKind = "none" /\ batchIds = <<>>
    /\ processed_tools = <<>> /\ results = NoResults

\* The fetch at the start of the attach call fails in this step.
AttachFetchFailed ==
    /\ pc = "attach_fetch" /\ pc' = "done"
    /\ attach_response'.message = "error"

\* The fetch at the start of a prune call of the endpoint fails in this step.
PruneFetchFailed ==
    /\ pc = "prune_fetch" /\ pruneArgs.caller = "endpoint" /\ pc' = "done"
    /\ ~pruning_result'.success

\* The top-level call has returned a failure.
CallFailed ==
    /\ pc = "done"
    /\ IF request_body.route = "attach"
       THEN attach_response.state = "returned" /\ ~attach_response.success
       ELSE pruning_result.state = "returned" /\ ~pruning_result.success

\* C24. Failure before the batch: when the fetch of the agent's info or
\* tools fails at the start of attach, or the fetch of the tools at the start
\* of prune, the call returns success = false with HTTP 500, nothing on the
\* platform has changed and no register, detach or attach request has been
\* issued for it; and a call that has begun a batch never returns a failure.
C24_FailureBeforeBatch ==
    [][/\ AttachFetchFailed =>
              /\ ~attach_response'.success /\ HttpStatus(attach_response') = 500
              /\ NothingIssued /\ NothingIssued' /\ attached' = attached
       /\ PruneFetchFailed =>
              /\ HttpStatus(pruning_result') = 500
              /\ NothingIssued /\ NothingIssued' /\ attached' = attached
       /\ CallFailed' => batchKind' = "none" /\ results' = NoResults]_vars

\* An attach request whose first fetch failed has been answered.
C24_Witness ==
    /\ pc = "done" /\ request_body.route = "attach"
    /\ attach_response.state = "returned" /\ attach_response.message = "error"
    /\ ~attach_response.success /\ HttpStatus(attach_response) = 500
    /\ NothingIssued

\* A request is received and validated in this step.
RequestReceived(route) ==
    /\ pc = "idle" /\ request_body'.route = route
    /\ <<request_body, http_response, pc>>' # <<request_body, http_response, pc>>

\* The request is answered 400 and the handler has made no remote call: the
\* engine has not moved.
Rejected400 == http_response'.code = 400 /\ UNCHANGED engineVars

\* drop_rate is a JSON number between 0 and 1.
NumericDropRate(dr) == dr.type = "number" /\ 0 <= dr.value /\ dr.value <= 10

\* C25. Input validation: an attach request without agent_id, and a prune
\* request without agent_id, without a non-empty user_prompt, or whose
\* drop_rate is missing, is not a number or lies outside [0,1], is answered
\* HTTP 400 with no remote call made; a prune request with only agent_id,
\* user_prompt and a valid drop_rate is accepted with empty keep_tool_ids
\* and newly_matched_tool_ids.
C25_InputValidation ==
    [][/\ RequestReceived("attach") /\ Falsy(request_body'.agent_id) => Rejected400
       /\ RequestReceived("prune") =>
              /\ \/ Falsy(request_body'.agent_id)
                 \/ Falsy(request_body'.user_prompt)
                 \/ ~NumericDropRate(request_body'.drop_rate)
                 => Rejected400
              /\ /\ ~Falsy(request_body'.agent_id)
                 /\ ~Falsy(request_body'.user_prompt)
                 /\ NumericDropRate(request_body'.drop_rate)
                 /\ ~request_body'.keep_tool_ids.present
                 /\ ~request_body'.newly_matched_tool_ids.present
                 => /\ pc' = "prune_fetch"
                    /\ pruneArgs'.drop_rate = request_body'.drop_rate.value
                    /\ pruneArgs'.keep_tool_ids = {}
                    /\ pruneArgs'.newly_matched_tool_ids = {}]_vars

\* C26. No local state mutation: whatever attach or prune calls have done,
\* every descriptor held in the in-memory mirror _tool_cache carries exactly
\* the keys of the descriptor last loaded from the cache file (which no step
\* of these calls writes), so GET /api/v1/tools returns what the file holds.
C26_NoMirrorMutation ==
    \A id \in Catalog : _tool_cache_keys[id] = cache_file_keys[id]

\* The attach request in progress has fetched the agent's tools and examines
\* the shared handle in this step.
HandleChecked ==
    /\ pc = "attach_fetch" /\ pc' # "attach_fetch"
    /\ ~AttachFetchFailed

AttachedMcp == {id \in attached : ToolType(id) = "external_mcp"}

\* The prune call in progress has fetched the agent's tools in this step.
PruneFetched ==
    /\ pc = "prune_fetch" /\ pc' # "prune_fetch"
    /\ ~(pruning_result'.state = "returned" /\ ~pruning_result'.success)

\* C28. Prune with no MCP tools: when the agent has no attached tool of
\* type external_mcp, the prune call returns success at the fetch, with no
\* tool detached or failed, without a library search and without any detach
\* request, whatever drop_rate, keep_tool_ids and newly_matched_tool_ids
\* are; and the platform's attachments are unchanged.
C28_PruneNoMcpTools ==
    [][PruneFetched /\ AttachedMcp = {} =>
          /\ pc' = "done"
          /\ pruning_result'.state = "returned" /\ pruning_result'.success
          /\ pruning_result'.detached = <<>> /\ pruning_result'.failed = <<>>
          /\ ordered_top_library_tool_info' = <<>>
          /\ mcp_tools_to_detach_ids' = {}
          /\ batchKind' = "none" /\ batchIds' = <<>>
          /\ attached' = attached]_vars

\* A prune of an agent with core tools only has returned at the fetch, with
\* a drop rate of 1.0 and ids to keep.
C28_Witness ==
    /\ pc = "done" /\ AttachedMcp = {}
    /\ pruning_result.success /\ pruning_result.message = "No MCP tools to prune"
    /\ pruneArgs.drop_rate = 10
    /\ pruneArgs.keep_tool_ids # {} /\ pruneArgs.newly_matched_tool_ids # {}
    /\ batchKind = "none"

\* Normal mode: fewer must-keep ids on the agent than the target T.
NormalMode == Cardinality(ClaimMust) < ClaimT

\* The attached MCP tools the library result ranks with type external_mcp.
RankedOnAgent ==
    {ordered_top_library_tool_info[i].id : i \in
        {j \in 1..Len(ordered_top_library_tool_info) :
            /\ ordered_top_library_tool_info[j].tool_type = "external_mcp"
            /\ ordered_top_library_tool_info[j].id \in current_mcp_tool_ids}}

ClaimTPrime == Max(1, (8 * ClaimN) \div 10)

ClaimNewly == pruneArgs.newly_matched_tool_ids \cap current_mcp_tool_ids

Min(a, b) == IF a <= b THEN a ELSE b

\* C30. Aggressive-mode kept set: when at least T must-keep ids are on the
\* agent, the final kept set is a subset of the must-keep set and holds no
\* id filled in from the library list alone; with at most T' must-keep ids
\* it is the must-keep set unchanged; with more than T' it is re-derived:
\* newly matched ids first, then must-keep ids the library ranks with type
\* external_mcp, at most T' ids in all, and fewer than T' (none, possibly)
\* when the newly matched and the ranked must-keep ids are fewer than T'.
C30_AggressiveKeptSet ==
    PruneDecided /\ Cardinality(ClaimMust) >= ClaimT =>
        /\ final_mcp_tool_ids_to_keep \subseteq ClaimMust
        /\ Cardinality(ClaimMust) <= ClaimTPrime =>
               final_mcp_tool_ids_to_keep = ClaimMust
        /\ Cardinality(ClaimMust) > ClaimTPrime =>
               /\ Cardinality(final_mcp_tool_ids_to_keep) <= ClaimTPrime
               /\ final_mcp_tool_ids_to_keep \ ClaimNewly \subseteq RankedOnAgent
               /\ IF Cardinality(ClaimNewly) <= ClaimTPrime
                  THEN ClaimNewly \subseteq final_mcp_tool_ids_to_keep
                  ELSE final_mcp_tool_ids_to_keep \subseteq ClaimNewly
               /\ Cardinality(final_mcp_tool_ids_to_keep) =
                      Min(ClaimTPrime,
                          Cardinality(ClaimNewly \cup (ClaimMust \cap RankedOnAgent)))

\* More than T' must-keep ids, of which the library ranks too few: the kept
\* set is smaller than T' and must-keep tools are in the detach set.
C30_Witness ==
    /\ pc = "done" /\ PruneDecided
    /\ Cardinality(ClaimMust) >= ClaimT
    /\ Cardinality(ClaimMust) > ClaimTPrime
    /\ ClaimNewly # {}
    /\ Cardinality(final_mcp_tool_ids_to_keep) < ClaimTPrime
    /\ final_mcp_tool_ids_to_keep # {}

(***************************************************************************)
(* The detailed sync cycle and the paged listing                           *)
(***************************************************************************)
\* Position of the first occurrence of an effect in the log of the cycle.
FirstAt(e) ==
    IF \E i \in 1..Len(cycle.log) : cycle.log[i] = e
    THEN CHOOSE i \in 1..Len(cycle.log) :
            cycle.log[i] = e /\ \A j \in 1..(i - 1) : cycle.log[j] # e
    ELSE 0

Logged(e) == FirstAt(e) > 0

\* Effect e happened, and before effect f.
Precedes(e, f) == Logged(e) /\ FirstAt(e) < FirstAt(f)

StoreChanges == {"delete", "insert"}

\* The catalog cache holds the list of the cycle, filter applied.
FilteredCatalogWritten ==
    /\ cache_file.exists
    /\ cache_file.content = CatalogOf(Names(cycle.letta_tools))
    /\ \A d \in cycle.letta_tools :
          d.tool_type = "external_mcp" => d.mcp_server_name \in cycle.active

\* C31 as stated. Order of a sync cycle: the MCP server list is persisted
\* to the MCP-server cache before the tool catalog cache is written, and
\* the tool catalog cache is written, filter applied, before any Vector
\* Store object is deleted or inserted.
C31_SyncOrder_Stated ==
    /\ Logged("tool_cache") => Precedes("mcp_cache", "tool_cache")
    /\ \A e \in StoreChanges : Logged(e) => Precedes("tool_cache", e)
    /\ Logged("tool_cache") => FilteredCatalogWritten

\* The order the code has: the tool catalog cache is written first, filter
\* applied; the MCP server list is persisted after it, if the request of
\* sync_tools for the list succeeds; both writes come before any Vector
\* Store object is deleted or inserted.
OrderOfTheCode ==
    /\ Logged("mcp_cache") => Precedes("tool_cache", "mcp_cache")
    /\ \A e \in StoreChanges :
          Logged(e) => /\ Precedes("tool_cache", e)
                       /\ Logged("mcp_cache") => Precedes("mcp_cache", e)
    /\ Logged("tool_cache") => FilteredCatalogWritten

\* fetch_all_tools_async has returned in this cycle.
CycleFetched == cycle.pc \notin {"idle", "fetch"} /\ ~cycle.missing_vars

\* The descriptors the returned list holds for a name.
DescriptorsOf(n) == {d \in cycle.letta_tools : d.name = n}

\* C32. Failed registration during sync: an MCP tool listed by an active
\* server, absent from the registry listing, whose registration fails is
\* still in the list fetch_all_tools_async returns, with mcp_server_name
\* set to its server and tool_type external_mcp; a tool whose registration
\* succeeds is in the list with the id the platform returned for it.
C32_FailedRegistrationKept ==
    CycleFetched =>
        /\ \A n \in cycle.failed_registration :
              /\ DescriptorsOf(n) # {}
              /\ \A d \in DescriptorsOf(n) :
                    /\ d.mcp_server_name = HomeServer(n)
                    /\ d.mcp_server_name \in cycle.active
                    /\ d.tool_type = "external_mcp"
        /\ \A n \in cycle.registered :
              /\ DescriptorsOf(n) # {}
              /\ \A d \in DescriptorsOf(n) :
                    /\ d.id = registry[n] /\ d.id # Absent
                    /\ d.mcp_server_name = HomeServer(n)

C32_Witness ==
    /\ cycle.pc = "done"
    /\ cycle.failed_registration # {}
    /\ cycle.registered # {}

\* fetch_tools_from_server_async has returned all_tools.
PagerReturned == pager.pc = "returned"

\* Full pages the URL can serve.
FullPages == Len(server_tools) \div PageLimit

\* What holds at every moment of a call: the cursor is the id of the last
\* tool received, all_tools is the concatenation of the pages served so
\* far, a page is requested at most `retries` times, the sleeps double, a
\* 4xx answer ends the call, and a call ended by a page ended at the first
\* page that was short or whose last item had no id.
PagedListingSafe ==
    /\ pager.attempts <= retries
    /\ pager.requests <= retries * (FullPages + 1)
    /\ pager.all_tools = SubSeq(server_tools, 1, Len(pager.all_tools))
    /\ (pager.pc = "request" /\ pager.pages = 0) => pager.after = NoCursor
    /\ (pager.pc = "request" /\ pager.pages > 0) =>
          /\ Len(pager.all_tools) = pager.pages * PageLimit
          /\ pager.all_tools[Len(pager.all_tools)].has_id
          /\ pager.after = pager.all_tools[Len(pager.all_tools)].id
    /\ (PagerReturned /\ pager.last = "page") =>
          \/ Len(pager.all_tools) < pager.pages * PageLimit
          \/ ~pager.all_tools[Len(pager.all_tools)].has_id
    /\ pager.last = "4xx" => PagerReturned
    /\ \A i \in 1..Len(pager.slept) :
          pager.slept[i] = IF i = 1 THEN delay ELSE 2 * pager.slept[i - 1]

\* C33. Paged listing with retry: pages are requested with the id of the
\* last returned tool as cursor; the call returns the concatenation of the
\* pages as soon as a page is short or its last item has no id; a page
\* request is attempted at most 3 times on 5xx or transport errors, the
\* delay doubling, a 4xx answer is never retried; and the call always
\* returns, after finitely many requests, when the listing is finite.
C33_PagedListing == [](PagedListingSafe) /\ <>PagerReturned

C33_Witness ==
    /\ PagerReturned /\ pager.last = "page"
    /\ pager.pages >= 3
    /\ Len(pager.slept) >= 2
    /\ Len(pager.all_tools) = Len(server_tools)

\* The registration was answered with a JSON object carrying neither id
\* nor tool_id.
RegisteredWithoutId ==
    /\ registration.pc \in {"resolved", "attached"}
    /\ registration.response.kind = "dict"
    /\ registration.response.keys = {}

\* The tool counts as registered under "{server}__{name}", and the attach
\* request, once sent, carries that id.
UsesSynthesizedId ==
    LET synth == SynthesizedId(registration.server_name, registration.tool_name)
    IN  /\ registration.tool_id = synth
        /\ registration.pc = "attached" => registration.attach_requests = {synth}

\* C34 as stated. Registration response without id: the tool is treated
\* as registered under the synthesized id "{server}__{name}" and that id is
\* used for the subsequent attach request.
C34_SynthesizedId_Stated == RegisteredWithoutId => UsesSynthesizedId

\* C34. Registration response without id: register_mcp_tool of
\* tool_finder_agent returns the synthesized id "{server}__{name}" and
\* attach_tools_to_agent sends the attach request with it; in the attach
\* engine of api_server, register_tool returns None for such a response,
\* the candidate is dropped and no attach request is sent for it.
C34_SynthesizedId ==
    RegisteredWithoutId =>
        IF registration.by = "tool_finder_agent"
        THEN UsesSynthesizedId
        ELSE /\ registration.tool_id = None
             /\ registration.attach_requests = {}

C34_Witness ==
    /\ RegisteredWithoutId
    /\ registration.by = "tool_finder_agent"
    /\ registration.pc = "attached"
    /\ registration.attach_requests =
          {SynthesizedId(registration.server_name, registration.tool_name)}

\* The objects the collection held when the cycle began whose name is in
\* the catalog of the cycle.
ReconciledAtStart ==
    IF cycle.start.taken /\ CycleFetched
    THEN {o \in cycle.start.collection : o.name \in Names(cycle.letta_tools)}
    ELSE {}

\* What the collection now holds of an object it held at the start.
Survivors(o0) == {o \in collection : o.name = o0.name /\ o.born = "before"}

\* C35. Reconciliation frame: for a name present both in the catalog and
\* in the Vector Store at the start of a cycle, the existing object stays,
\* and the cycle changes at most its property mcp_server_name, and that only
\* when the object is external_mcp and lacked it; tool_id and the other
\* descriptor properties are never rewritten.
C35_ReconciliationFrame ==
    \A o0 \in ReconciledAtStart :
        /\ Cardinality(Survivors(o0)) = 1
        /\ \A o \in Survivors(o0) :
              /\ o.tool_id = o0.tool_id
              /\ o.tool_type = o0.tool_type
              /\ o.mcp_server_name # o0.mcp_server_name =>
                    /\ o0.tool_type = "external_mcp"
                    /\ o0.mcp_server_name = NoServer

\* A cycle has ended with an object backfilled, whose tool_id is not the id
\* the catalog holds for its name.
C35_Witness ==
    /\ cycle.pc = "done" /\ Logged("update")
    /\ \E o0 \in ReconciledAtStart : \E o \in Survivors(o0) :
          /\ o.mcp_server_name # o0.mcp_server_name
          /\ \E d \in DescriptorsOf(o.name) : d.id # o.tool_id

(***************************************************************************)
(* The bookkeeping of a prune call                                         *)
(***************************************************************************)

\* C36. Prune bookkeeping: in every prune call with N >= 1 the final kept
\* set and the detach set partition M_cur, exactly one detach request is
\* issued per id of the detach set, the detached and the failed counts of
\* the result add up to the size of the detach set, and the reported kept
\* set equals the MCP tools attached after the call only if no detach
\* failed.
C36_PruneBookkeeping ==
    PruneDecided /\ ClaimN >= 1 =>
        /\ final_mcp_tool_ids_to_keep \subseteq current_mcp_tool_ids
        /\ final_mcp_tool_ids_to_keep \cap mcp_tools_to_detach_ids = {}
        /\ final_mcp_tool_ids_to_keep \cup mcp_tools_to_detach_ids = current_mcp_tool_ids
        /\ batchKind = "detach"
        /\ Range(batchIds) = mcp_tools_to_detach_ids
        /\ Len(batchIds) = Cardinality(mcp_tools_to_detach_ids)
        /\ PruneReturned =>
              /\ Len(pruning_result.detached) + Len(pruning_result.failed)
                     = Cardinality(mcp_tools_to_detach_ids)
              /\ Range(pruning_result.detached) \cup Range(pruning_result.failed)
                     = mcp_tools_to_detach_ids
              /\ final_mcp_tool_ids_to_keep = AttachedMcp
                     => pruning_result.failed = <<>>

\* A returned call that kept one tool, detached one and failed to detach one.
C36_Witness ==
    /\ PruneReturned /\ PruneDecided /\ ClaimN >= 1
    /\ final_mcp_tool_ids_to_keep # {}
    /\ pruning_result.detached # <<>>
    /\ pruning_result.failed # <<>>
    /\ final_mcp_tool_ids_to_keep # AttachedMcp

\* The library search of the prune call in progress fails in this step.
SearchFails == PruneDecide(FALSE)

\* C37. Prune with an empty library result: a failed Vector Store query
\* gives the prune call the empty library list and raises no error; with
\* an empty library list a normal-mode prune keeps exactly the must-keep
\* ids present on the agent, issues detach requests for every other
\* attached MCP tool, and returns success = true.
C37_PruneEmptyLibrary ==
    /\ [][SearchFails =>
             /\ ordered_top_library_tool_info' = <<>>
             /\ pc' = "prune_detach"
             /\ pruning_result' = pruning_result]_vars
    /\ [](PruneDecided /\ NormalMode /\ ordered_top_library_tool_info = <<>> =>
             /\ final_mcp_tool_ids_to_keep = ClaimMust
             /\ mcp_tools_to_detach_ids = current_mcp_tool_ids \ ClaimMust
             /\ DetachRequested = current_mcp_tool_ids \ ClaimMust
             /\ PruneReturned =>
                   /\ pruning_result.success
                   /\ pruning_result.message = "Pruning completed")

\* A normal-mode call with a non-empty ranking in the store whose search
\* failed: it returned, having kept one must-keep tool and detached another
\* tool the ranking lists.
C37_Witness ==
    /\ PruneReturned /\ PruneDecided /\ NormalMode
    /\ ordered_top_library_tool_info = <<>>
    /\ ranking # <<>>
    /\ ClaimMust # {}
    /\ \E i \in 1..Len(ranking) :
           /\ ranking[i].id \in Range(pruning_result.detached)
           /\ ranking[i].tool_type = "external_mcp"

(***************************************************************************)
(* Sync cycles whose fetches fail                                          *)
(***************************************************************************)

\* The cycle is past the removal of obsolete objects, every call to the
\* Vector Store having succeeded.
RemovalDone == cycle.pc \in {"add", "backfill", "closing", "done"} /\ ~cycle.store_errors

\* The cycle has written the list it fetched as the tool catalog cache.
CatalogWritten ==
    /\ Logged("tool_cache")
    /\ cache_file.exists
    /\ cache_file.content = CatalogOf(Names(cycle.letta_tools))
    /\ cache_file.mtime = cycle.start.cache_file.mtime + 1

\* No object the cycle found in the Vector Store under a name missing from
\* the catalog is left.
MissingDeleted ==
    \A o \in cycle.start.collection :
        o.name \notin Names(cycle.letta_tools) => o \notin collection

StoresUnchanged ==
    /\ cache_file = cycle.start.cache_file
    /\ mcp_servers_cache = cycle.start.mcp_servers_cache
    /\ collection = cycle.start.collection

\* C39. Sync abort on empty fetch: a cycle whose fetch_all_tools_async
\* returns the empty list stops at once and leaves the tool catalog cache,
\* the MCP-server cache and the Vector Store collection unchanged; a cycle
\* started with a required environment variable missing ends before any
\* fetch and changes nothing.
C39_AbortOnEmptyFetch ==
    /\ CycleFetched /\ cycle.letta_tools = {} =>
          /\ cycle.pc \in {"closing", "done"}
          /\ cycle.log = <<>>
          /\ ~cycle.store_errors
          /\ StoresUnchanged
    /\ cycle.pc # "idle" /\ cycle.missing_vars =>
          /\ cycle.pc = "done"
          /\ cycle.log = <<>>
          /\ StoresUnchanged
          /\ registry = cycle.start.registry

\* A finished cycle none of whose fetches succeeded, on a platform with
\* tools, whose catalog cache and collection hold a tool the platform no
\* longer has.
C39_Witness ==
    /\ cycle.pc = "done" /\ ~cycle.missing_vars
    /\ cycle.letta_tools = {}
    /\ cycle.main_pages = 0 /\ ~cycle.list_ok
    /\ platform_tools # {}
    /\ cache_file.exists
    /\ \E o \in collection : o.name \notin platform_tools

\* The names the platform had registered when the cycle began, in the
\* order GET /tools serves them.
ListingAtStart ==
    FilterSeq(NameOrder, {n \in PlatformNames : cycle.start.registry[n] # Absent})

\* Names of the tools fetch_tools_from_server_async returned.
ReturnedNames == {ListingAtStart[t.name] : t \in Range(pager.all_tools)}

TerminalFailures == {"4xx", "5xx", "transport"}

\* A page request failed terminally after at least one page was fetched.
PartialListing ==
    /\ pager.pc = "returned"
    /\ pager.last \in TerminalFailures
    /\ pager.all_tools # <<>>

====
